---- MODULE Spec2Model ----
(***************************************************************************)
(* Session progression of the workout tracker: the storage tables          *)
(* workout_plans, training_sessions and training_sets, the plan summariser *)
(* and progression engine of routes/api.py, the persistence layer of       *)
(* services/training_sessions.py and the four training endpoints.          *)
(*                                                                         *)
(* Text is abstracted as follows.  An exercise name is an atomic string    *)
(* (ASCII stand-ins for the Chinese names of the tests); keyword           *)
(* containment is membership in the set of names containing the keyword.   *)
(* A non-name cell is blank, a numeral with an optional unit suffix        *)
(* ("3", "12", "90秒": kind "num"), or a sets-by-reps pair ("3x12": kind   *)
(* "pair").  Optional integers use None (= -1), optional strings NoStr.    *)
(***************************************************************************)
EXTENDS Integers, Sequences, FiniteSets, TLC

VARIABLES
    plans,      \* table workout_plans: sequence of Plan Records
    sessions,   \* table training_sessions: sequence of rows, in insertion order
    sets,       \* table training_sets: sequence of rows, in insertion order
    clock,      \* the last completed_at that complete_session wrote
    request,    \* the last request received
    response,   \* the response to it
    repeat,     \* how many times in a row that same request was made (capped at 2)
    probe,      \* input and result of a direct call of a pure function
    inflight,   \* per worker: the position of the request it is handling
    faults      \* the storage calls of the last import on which the backend failed

vars == <<plans, sessions, sets, clock, request, response, repeat, probe, inflight, faults>>

\* ------------------------------------------------------------------ bounds
MaxSessions == 2
MaxClock == 2
MaxSetRows == 3
MaxPlanLen == 3
MaxLogs == 2

\* ------------------------------------------------------------ basic values
None == 0 - 1
NoStr == "<none>"

Or(a, b) == IF a = None \/ a = 0 THEN b ELSE a

\* names: squat = 深蹲, deadlift = 硬拉, rest = 休息, reshen = 热身
Squat == "squat"
Deadlift == "deadlift"
RestName == "rest"
WarmupName == "reshen"

Today == "2025-01-01"
OtherDay == "2025-01-02"
BadDate == "2025-13-40"
Dates == {Today, OtherDay}

\* ------------------------------------------------------------------- cells
Blank == [kind |-> "blank", a |-> 0, b |-> 0]
Num(n) == [kind |-> "num", a |-> n, b |-> 0]
Pair(x, y) == [kind |-> "pair", a |-> x, b |-> y]
\* a combination notation such as 2+4: two numerals that form no NxM pair
Combo(x, y) == [kind |-> "combo", a |-> x, b |-> y]

\* the headers of the seeded plans: name, sets (组数), reps (次数), rest (休息)
Headers == <<[sets |-> FALSE, reps |-> FALSE, rest |-> FALSE],
             [sets |-> TRUE, reps |-> FALSE, rest |-> FALSE],
             [sets |-> FALSE, reps |-> TRUE, rest |-> FALSE],
             [sets |-> FALSE, reps |-> FALSE, rest |-> TRUE]>>

\* the headers of the plan of tests/test_app.py:147-160: name (动作), sets (组数),
\* reps (次数), weight (重量) and inter-set rest (组间歇), a header that holds 组 and
\* none of 休息, 间隔, rest
TestHeaders == <<[sets |-> FALSE, reps |-> FALSE, rest |-> FALSE],
                 [sets |-> TRUE, reps |-> FALSE, rest |-> FALSE],
                 [sets |-> FALSE, reps |-> TRUE, rest |-> FALSE],
                 [sets |-> FALSE, reps |-> FALSE, rest |-> FALSE],
                 [sets |-> TRUE, reps |-> FALSE, rest |-> FALSE]>>

\* a row of plan_data, with the headers of its Plan Record: get_plan_for_date
\* builds DataFrame(plan_data, columns=headers)
Row(name, s, r, t) == [name |-> name, headers |-> Headers, cells |-> <<s, r, t>>]
TestRow(name, s, r, w, t) == [name |-> name, headers |-> TestHeaders, cells |-> <<s, r, w, t>>]

\* the characters of a row's name: those it was spelled with, or one run
Spelling(row) ==
    IF "spelling" \in DOMAIN row THEN row.spelling
    ELSE IF row.name = "" THEN <<>> ELSE <<row.name>>

\* re.search(r"\d+", value): the first run of digits
_extract_number(cell) == IF cell.kind = "blank" THEN None ELSE cell.a

\* re.search(r"(\d+)\s*[x×*]\s*(\d+)", value)
_extract_set_rep_pair(cell) == IF cell.kind = "pair" THEN <<cell.a, cell.b>> ELSE <<>>

\* a numeral, with or without a unit, parses to its value (a value of 0 through
\* the digits-only fallback); a pair or a combination matches no rule; a name
\* holds no digit
_parse_rest_seconds(cell) == IF cell.kind = "num" THEN cell.a ELSE None

_has_positive_number(cell) ==
    \/ cell.kind = "num" /\ cell.a > 0
    \/ cell.kind \in {"pair", "combo"} /\ (cell.a > 0 \/ cell.b > 0)

_extract_numeric_values(cell) ==
    CASE cell.kind = "blank" -> <<>>
      [] cell.kind = "num" -> <<cell.a>>
      [] OTHER -> <<cell.a, cell.b>>

\* all(number == 0 ...) without the test that there is a number
_is_zero_only_row_NoNumberNeeded(cells) ==
    \A i \in 1..Len(cells) : \A j \in 1..Len(_extract_numeric_values(cells[i])) :
        _extract_numeric_values(cells[i])[j] = 0

_is_zero_only_row(cells) ==
    LET numbers == {<<i, j>> \in (1..Len(cells)) \X (1..2) :
                        j <= Len(_extract_numeric_values(cells[i]))}
    IN  /\ numbers # {}
        /\ \A p \in numbers : _extract_numeric_values(cells[p[1]])[p[2]] = 0

_categorize_entry(name) ==
    CASE name = "" -> "note"
      [] name = RestName -> "rest"
      [] name = WarmupName -> "warmup"
      [] OTHER -> "exercise"

\* ------------------------------------------------------------- name texts
\* a name as its characters: the separators + and &, their full-width forms
\* (written ^ and $ here), the blank, and runs of any other characters
Plus == "+"
Amp == "&"
WidePlus == "^"
WideAmp == "$"
Space == " "
Separators == {Plus, Amp}

RECURSIVE Join(_)
Join(chars) == IF chars = <<>> THEN "" ELSE Head(chars) \o Join(Tail(chars))

\* str.strip()
RECURSIVE Strip(_)
Strip(chars) ==
    IF chars = <<>> THEN <<>>
    ELSE IF Head(chars) = Space THEN Strip(Tail(chars))
    ELSE IF chars[Len(chars)] = Space THEN Strip(SubSeq(chars, 1, Len(chars) - 1))
    ELSE chars

\* name.replace("＋", "+").replace("＆", "&")
Normalized(chars) ==
    [i \in 1..Len(chars) |-> IF chars[i] = WidePlus THEN Plus
                             ELSE IF chars[i] = WideAmp THEN Amp
                             ELSE chars[i]]

\* re.split(r"\s*[+&]\s*", normalized): the segments between separators, in
\* order; current is the segment being read
RECURSIVE Segments(_, _, _)
Segments(chars, i, current) ==
    IF i > Len(chars) THEN <<current>>
    ELSE IF chars[i] \in Separators THEN <<current>> \o Segments(chars, i + 1, <<>>)
    ELSE Segments(chars, i + 1, Append(current, chars[i]))

\* the split without the replacement of the full-width separators
_split_combination_NoWide(chars) ==
    IF chars = <<>> THEN <<>>
    ELSE IF \A i \in 1..Len(chars) : chars[i] \notin Separators
    THEN <<Join(Strip(chars))>>
    ELSE LET segments == Segments(chars, 1, <<>>)
             cleaned == [k \in 1..Len(segments) |-> Strip(segments[k])]
             parts == SelectSeq(cleaned, LAMBDA part : part # <<>>)
         IN  IF parts = <<>> THEN <<Join(Strip(chars))>>
             ELSE [k \in 1..Len(parts) |-> Join(parts[k])]

_split_combination(chars) ==
    LET normalized == Normalized(chars)
    IN  IF chars = <<>> THEN <<>>
        ELSE IF \A i \in 1..Len(normalized) : normalized[i] \notin Separators
        THEN <<Join(Strip(chars))>>
        ELSE LET segments == Segments(normalized, 1, <<>>)
                 cleaned == [k \in 1..Len(segments) |-> Strip(segments[k])]
                 parts == SelectSeq(cleaned, LAMBDA part : part # <<>>)
             IN  IF parts = <<>> THEN <<Join(Strip(chars))>>
                 ELSE [k \in 1..Len(parts) |-> Join(parts[k])]

\* entry.get(key, default)
Get(entry, key, default) == IF key \in DOMAIN entry THEN entry[key] ELSE default

\* ------------------------------------------------------- plan summariser
\* one pass of the loop over zip(headers, values) for a non-name column; the
\* name column matches no header keyword and parses to no number
ScanCell(header, cell, acc) ==
    IF cell.kind = "blank" THEN acc
    ELSE LET pair == _extract_set_rep_pair(cell)
             s1 == IF header.sets /\ acc.sets = None THEN _extract_number(cell) ELSE acc.sets
             r1 == IF header.reps /\ acc.reps = None THEN _extract_number(cell) ELSE acc.reps
             t1 == IF acc.rest = None /\ header.rest /\ _parse_rest_seconds(cell) # None
                   THEN _parse_rest_seconds(cell) ELSE acc.rest
         IN  [sets |-> IF pair # <<>> /\ s1 = None THEN pair[1] ELSE s1,
              reps |-> IF pair # <<>> /\ r1 = None THEN pair[2] ELSE r1,
              rest |-> t1]

RECURSIVE ScanCells(_, _, _, _)
ScanCells(headers, cells, i, acc) ==
    IF i > Len(cells) THEN acc
    ELSE ScanCells(headers, cells, i + 1, ScanCell(headers[i + 1], cells[i], acc))

\* the first non-name cell the rest parser accepts
RECURSIVE FirstParsedRest(_, _)
FirstParsedRest(cells, i) ==
    IF i > Len(cells) THEN None
    ELSE IF _parse_rest_seconds(cells[i]) # None THEN _parse_rest_seconds(cells[i])
    ELSE FirstParsedRest(cells, i + 1)

\* the row loop without the clearing of the targets of a row that is not trackable
Descriptor_KeepsTargets(row, idx) ==
    LET exercise == IF row.name = "" THEN "unnamed" \o ToString(idx) ELSE row.name
        scanned == ScanCells(row.headers, row.cells, 1,
                             [sets |-> None, reps |-> None, rest |-> None])
        target_sets == IF scanned.sets = 0 THEN None ELSE scanned.sets
        target_reps == IF scanned.reps = 0 THEN None ELSE scanned.reps
        target_rest_seconds == IF scanned.rest = None THEN FirstParsedRest(row.cells, 1)
                               ELSE scanned.rest
        category == _categorize_entry(exercise)
        components == _split_combination(IF row.name = "" THEN <<exercise>>
                                         ELSE Spelling(row))
        is_combination == Len(components) > 1
        has_positive_numbers == \E i \in 1..Len(row.cells) : _has_positive_number(row.cells[i])
        is_trackable == /\ category = "exercise"
                        /\ \/ target_sets # None /\ target_sets > 0
                           \/ target_reps # None /\ target_reps > 0
                           \/ has_positive_numbers
    IN  [exercise_name |-> exercise,
         target_sets |-> target_sets,
         target_reps |-> target_reps,
         target_rest_seconds |-> target_rest_seconds,
         is_trackable |-> is_trackable,
         category |-> IF ~is_trackable /\ category = "exercise" THEN "note" ELSE category,
         components |-> IF is_combination THEN components ELSE <<>>,
         primary_component |-> IF is_combination THEN components[1] ELSE exercise,
         is_combination |-> is_combination]

\* the body of the row loop: the Exercise Descriptor of row number idx
Descriptor(row, idx) ==
    LET exercise == IF row.name = "" THEN "unnamed" \o ToString(idx) ELSE row.name
        scanned == ScanCells(row.headers, row.cells, 1,
                             [sets |-> None, reps |-> None, rest |-> None])
        target_sets == IF scanned.sets = 0 THEN None ELSE scanned.sets
        target_reps == IF scanned.reps = 0 THEN None ELSE scanned.reps
        target_rest_seconds == IF scanned.rest = None THEN FirstParsedRest(row.cells, 1)
                               ELSE scanned.rest
        category == _categorize_entry(exercise)
        components == _split_combination(IF row.name = "" THEN <<exercise>>
                                         ELSE Spelling(row))
        is_combination == Len(components) > 1
        has_positive_numbers == \E i \in 1..Len(row.cells) : _has_positive_number(row.cells[i])
        is_trackable == /\ category = "exercise"
                        /\ \/ target_sets # None /\ target_sets > 0
                           \/ target_reps # None /\ target_reps > 0
                           \/ has_positive_numbers
    IN  [exercise_name |-> exercise,
         target_sets |-> IF is_trackable THEN target_sets ELSE None,
         target_reps |-> IF is_trackable THEN target_reps ELSE None,
         target_rest_seconds |-> IF is_trackable THEN target_rest_seconds ELSE None,
         is_trackable |-> is_trackable,
         category |-> IF ~is_trackable /\ category = "exercise" THEN "note" ELSE category,
         components |-> IF is_combination THEN components ELSE <<>>,
         primary_component |-> IF is_combination THEN components[1] ELSE exercise,
         is_combination |-> is_combination]

RowKept(row) ==
    /\ ~(row.name = "" /\ \A i \in 1..Len(row.cells) : row.cells[i].kind = "blank")
    /\ ~_is_zero_only_row(row.cells)

RECURSIVE SummariseRows(_, _)
SummariseRows(rows, idx) ==
    IF idx > Len(rows) THEN <<>>
    ELSE (IF RowKept(rows[idx]) THEN <<Descriptor(rows[idx], idx)>> ELSE <<>>)
         \o SummariseRows(rows, idx + 1)

\* the rest of the last row that has one, trackable or not
RECURSIVE FirstTrackableRest_AnyRow(_, _)
FirstTrackableRest_AnyRow(exercises, i) ==
    IF i > Len(exercises) THEN None
    ELSE IF exercises[i].target_rest_seconds # None
            /\ FirstTrackableRest_AnyRow(exercises, i + 1) = None
         THEN exercises[i].target_rest_seconds
    ELSE FirstTrackableRest_AnyRow(exercises, i + 1)

RECURSIVE FirstTrackableRest(_, _)
FirstTrackableRest(exercises, i) ==
    IF i > Len(exercises) THEN None
    ELSE IF exercises[i].is_trackable /\ exercises[i].target_rest_seconds # None
         THEN exercises[i].target_rest_seconds
    ELSE FirstTrackableRest(exercises, i + 1)

NoPlan == [found |-> FALSE, plan_data |-> <<>>]

\* the Plan Summary returned for a list of Exercise Descriptors
PlanSummary(exercises) ==
    LET trackable_count == Cardinality({i \in 1..Len(exercises) : exercises[i].is_trackable})
    IN  [exercises |-> exercises,
         default_rest_seconds |-> FirstTrackableRest(exercises, 1),
         trackable_exercise_count |-> trackable_count,
         note_exercise_count |-> Len(exercises) - trackable_count,
         is_rest_day |-> trackable_count = 0]

_summarise_plan(plan) ==
    PlanSummary(IF plan.found THEN SummariseRows(plan.plan_data, 1) ELSE <<>>)

\* datetime.strptime(date_str, "%Y-%m-%d") succeeds
ValidDate(date_str) == date_str # BadDate

get_plan_for_date(date_str) ==
    LET data == SelectSeq(plans, LAMBDA rec : rec.date = date_str)
    IN  IF ~ValidDate(date_str) \/ data = <<>> THEN NoPlan
        ELSE [found |-> TRUE, plan_data |-> data[1].plan_data]

\* --------------------------------------------------- progression engine
\* counts[name]: the highest set_number logged under that name, 0 by default
Counts(logs, name) ==
    LET nums == {logs[i].set_number : i \in {j \in 1..Len(logs) : logs[j].exercise = name}}
    IN  IF nums = {} THEN 0 ELSE CHOOSE n \in nums : \A m \in nums : m <= n

NoStep == [exercise |-> NoStr, next_set |-> None, target_sets |-> None,
           target_rest_seconds |-> None, is_combination |-> FALSE,
           components |-> <<>>, primary_component |-> NoStr]

\* mutants of NextStepFrom: an exercise is done only above its goal; untrackable
\* entries are not skipped
RECURSIVE NextStepFrom_OffByOne(_, _, _)
NextStepFrom_OffByOne(exercises, logs, i) ==
    IF i > Len(exercises) THEN NoStep
    ELSE LET entry == exercises[i]
             logged == Counts(logs, entry.exercise_name)
             effective_goal == IF entry.target_sets # None THEN entry.target_sets ELSE 1
         IN  IF ~entry.is_trackable THEN NextStepFrom_OffByOne(exercises, logs, i + 1)
             ELSE IF logged <= effective_goal
                  THEN [exercise |-> entry.exercise_name,
                        next_set |-> logged + 1,
                        target_sets |-> entry.target_sets,
                        target_rest_seconds |-> entry.target_rest_seconds,
                        is_combination |-> Get(entry, "is_combination", FALSE),
                        components |-> Get(entry, "components", <<>>),
                        primary_component |-> Get(entry, "primary_component", NoStr)]
             ELSE NextStepFrom_OffByOne(exercises, logs, i + 1)

RECURSIVE NextStepFrom_NoSkip(_, _, _)
NextStepFrom_NoSkip(exercises, logs, i) ==
    IF i > Len(exercises) THEN NoStep
    ELSE LET entry == exercises[i]
             logged == Counts(logs, entry.exercise_name)
             effective_goal == IF entry.target_sets # None THEN entry.target_sets ELSE 1
         IN  IF logged < effective_goal
             THEN [exercise |-> entry.exercise_name,
                   next_set |-> logged + 1,
                   target_sets |-> entry.target_sets,
                   target_rest_seconds |-> entry.target_rest_seconds,
                   is_combination |-> Get(entry, "is_combination", FALSE),
                   components |-> Get(entry, "components", <<>>),
                   primary_component |-> Get(entry, "primary_component", NoStr)]
             ELSE NextStepFrom_NoSkip(exercises, logs, i + 1)

RECURSIVE NextStepFrom(_, _, _)
NextStepFrom(exercises, logs, i) ==
    IF i > Len(exercises) THEN NoStep
    ELSE LET entry == exercises[i]
             logged == Counts(logs, entry.exercise_name)
             effective_goal == IF entry.target_sets # None THEN entry.target_sets ELSE 1
         IN  IF ~entry.is_trackable THEN NextStepFrom(exercises, logs, i + 1)
             ELSE IF logged < effective_goal
                  THEN [exercise |-> entry.exercise_name,
                        next_set |-> logged + 1,
                        target_sets |-> entry.target_sets,
                        target_rest_seconds |-> entry.target_rest_seconds,
                        is_combination |-> Get(entry, "is_combination", FALSE),
                        components |-> Get(entry, "components", <<>>),
                        primary_component |-> Get(entry, "primary_component", NoStr)]
             ELSE NextStepFrom(exercises, logs, i + 1)

_determine_next_step(plan_summary, logs) == NextStepFrom(plan_summary.exercises, logs, 1)

\* ------------------------------------------------- training session service
Reverse(seq) == [i \in 1..Len(seq) |-> seq[Len(seq) + 1 - i]]

\* select * from training_sets where session_id = ... order by completed_at desc
_fetch_logs(table, session_id) ==
    Reverse(SelectSeq(table, LAMBDA log : log.session_id = session_id))

\* TrainingSession.from_record
from_record(record, logs) ==
    [id |-> record.id,
     plan_date |-> record.plan_date,
     status |-> record.status,
     rest_interval_seconds |-> Or(record.rest_interval_seconds, 90),
     started_at |-> record.started_at,
     completed_at |-> record.completed_at,
     notes |-> record.notes,
     logs |-> logs]

NoSession == [id |-> None, plan_date |-> NoStr, status |-> NoStr,
              rest_interval_seconds |-> None, started_at |-> None,
              completed_at |-> None, notes |-> NoStr, logs |-> <<>>]

is_active(session) == session.status = "active" /\ session.completed_at = None

\* mutant of ActiveQuery: the plan_date filter is missing
ActiveQuery_AnyDate(plan_date) ==
    LET hits == {i \in 1..Len(sessions) : sessions[i].status = "active"}
    IN  IF hits = {} THEN <<>>
        ELSE <<sessions[CHOOSE i \in hits :
                    \A j \in hits : sessions[j].started_at <= sessions[i].started_at]>>

\* select * where plan_date = ... and status = 'active' order by started_at desc limit 1
ActiveQuery(plan_date) ==
    LET hits == {i \in 1..Len(sessions) :
                    sessions[i].plan_date = plan_date /\ sessions[i].status = "active"}
    IN  IF hits = {} THEN <<>>
        ELSE <<sessions[CHOOSE i \in hits :
                    \A j \in hits : sessions[j].started_at <= sessions[i].started_at]>>

\* mutants of start_session: no look-up of an active session; a completed
\* session of the date is set back to active
start_session_AlwaysInserts(plan_date, rest_interval_seconds, now) ==
    LET payload == [id |-> Len(sessions) + 1,
                    plan_date |-> plan_date,
                    status |-> "active",
                    rest_interval_seconds |-> rest_interval_seconds,
                    started_at |-> now,
                    completed_at |-> None,
                    notes |-> NoStr]
    IN  [table |-> Append(sessions, payload), session |-> from_record(payload, <<>>)]

start_session_Reactivates(plan_date, rest_interval_seconds, now) ==
    LET hits == {i \in 1..Len(sessions) : sessions[i].plan_date = plan_date}
        last == CHOOSE i \in hits : \A j \in hits : j <= i
        payload == [id |-> Len(sessions) + 1,
                    plan_date |-> plan_date,
                    status |-> "active",
                    rest_interval_seconds |-> rest_interval_seconds,
                    started_at |-> now,
                    completed_at |-> None,
                    notes |-> NoStr]
    IN  IF hits # {}
        THEN [table |-> [sessions EXCEPT ![last].status = "active",
                                         ![last].completed_at = None],
              session |-> from_record([sessions[last] EXCEPT !.status = "active",
                                                             !.completed_at = None],
                                      _fetch_logs(sets, sessions[last].id))]
        ELSE [table |-> Append(sessions, payload),
              session |-> from_record(payload, <<>>)]

\* the session returned and the table after the call; now is the time of the call
start_session(plan_date, rest_interval_seconds, now) ==
    LET existing == ActiveQuery(plan_date)
        payload == [id |-> Len(sessions) + 1,
                    plan_date |-> plan_date,
                    status |-> "active",
                    rest_interval_seconds |-> rest_interval_seconds,
                    started_at |-> now,
                    completed_at |-> None,
                    notes |-> NoStr]
    IN  IF existing # <<>>
        THEN [table |-> sessions,
              session |-> from_record(existing[1], _fetch_logs(sets, existing[1].id))]
        ELSE [table |-> Append(sessions, payload),
              session |-> from_record(payload, <<>>)]

\* mutant of complete_session: the status is left as it was
complete_session_KeepsStatus(table, session_id, notes, now) ==
    [i \in 1..Len(table) |->
        IF table[i].id = session_id
        THEN [table[i] EXCEPT !.completed_at = now, !.notes = notes]
        ELSE table[i]]

\* update training_sessions set status, completed_at, notes where id = session_id
complete_session(table, session_id, notes, now) ==
    [i \in 1..Len(table) |->
        IF table[i].id = session_id
        THEN [table[i] EXCEPT !.status = "completed", !.completed_at = now, !.notes = notes]
        ELSE table[i]]

\* mutant of get_session: the id filter is missing
get_session_AnyRow(table, logtable, session_id) ==
    IF table = <<>> THEN NoSession
    ELSE from_record(table[1], _fetch_logs(logtable, table[1].id))

get_session(table, logtable, session_id) ==
    LET data == SelectSeq(table, LAMBDA rec : rec.id = session_id)
    IN  IF data = <<>> THEN NoSession
        ELSE from_record(data[1], _fetch_logs(logtable, session_id))

get_active_session(plan_date) ==
    LET data == ActiveQuery(plan_date)
    IN  IF data = <<>> THEN NoSession
        ELSE from_record(data[1], _fetch_logs(sets, data[1].id))

\* mutant of _next_set_number: the last number is returned as it is
_next_set_number_NoIncrement(session_id, exercise) ==
    LET nums == {sets[i].set_number :
                    i \in {j \in 1..Len(sets) : /\ sets[j].session_id = session_id
                                                /\ sets[j].exercise = exercise}}
    IN  IF nums = {} THEN 1
        ELSE CHOOSE n \in nums : \A m \in nums : m <= n

\* select set_number where session_id, exercise order by set_number desc limit 1
_next_set_number(session_id, exercise) ==
    LET nums == {sets[i].set_number :
                    i \in {j \in 1..Len(sets) : /\ sets[j].session_id = session_id
                                                /\ sets[j].exercise = exercise}}
    IN  IF nums = {} THEN 1
        ELSE (CHOOSE n \in nums : \A m \in nums : m <= n) + 1

\* the row record_set inserts into training_sets
record_set(session_id, exercise, rest_seconds, set_number, now) ==
    [session_id |-> session_id,
     exercise |-> exercise,
     set_number |-> IF set_number = None THEN _next_set_number(session_id, exercise)
                    ELSE set_number,
     rest_seconds |-> rest_seconds,
     completed_at |-> now]

NoLog == [session_id |-> None, exercise |-> NoStr, set_number |-> None,
          rest_seconds |-> None, completed_at |-> None]

\* ------------------------------------------------------ requests, responses
NoFile == [filename |-> "", too_big |-> FALSE, sheets |-> <<>>]

NoRequest == [op |-> "none", date |-> NoStr, session_id |-> None,
              rest_interval_seconds |-> None, notes |-> NoStr, file |-> NoFile]

NoResponse == [http |-> 0, status |-> NoStr, error |-> NoStr, session_id |-> None,
               session_status |-> NoStr, current_exercise |-> NoStr,
               current_set |-> None, target_rest_seconds |-> None,
               rest_seconds |-> None, last_log |-> NoLog,
               default_rest_seconds |-> None, trackable_exercise_count |-> None,
               exercises |-> <<>>, is_combination |-> FALSE, components |-> <<>>,
               primary_component |-> NoStr]

ErrorResponse(http, error) == [NoResponse EXCEPT !.http = http, !.error = error]

_build_session_payload(session, plan_summary, logs) ==
    LET next_step == _determine_next_step(plan_summary, logs)
    IN  [NoResponse EXCEPT
            !.http = 200,
            !.session_id = session.id,
            !.session_status = session.status,
            !.status = IF next_step = NoStep THEN "completed"
                       ELSE IF session.status = "active" THEN "active" ELSE "completed",
            !.current_exercise = next_step.exercise,
            !.current_set = next_step.next_set,
            !.target_rest_seconds = next_step.target_rest_seconds,
            !.is_combination = next_step.is_combination,
            !.components = next_step.components,
            !.primary_component = next_step.primary_component]

\* mutant of Trackable: every entry counts
Trackable_All(plan_summary) == plan_summary.exercises

Trackable(plan_summary) ==
    SelectSeq(plan_summary.exercises, LAMBDA entry : entry.is_trackable)

Received(req) ==
    /\ request' = req
    /\ repeat' = IF req = request THEN 2 ELSE 1

\* ---------------------------------------------------------------- endpoints
\* payload.get("date") or _today_iso()
DateOf(date) == IF date = NoStr THEN Today ELSE date

\* GET /api/today-plan
today_plan(date) ==
    LET date_str == DateOf(date)
        summary == _summarise_plan(get_plan_for_date(date_str))
    IN  /\ Received([NoRequest EXCEPT !.op = "today-plan", !.date = date])
        /\ response' = [NoResponse EXCEPT
                            !.http = 200,
                            !.default_rest_seconds = summary.default_rest_seconds,
                            !.trackable_exercise_count = summary.trackable_exercise_count,
                            !.exercises = summary.exercises]
        /\ UNCHANGED <<plans, sessions, sets, clock, probe, inflight, faults>>

\* POST /api/start-training
start_training(date, rest_value) ==
    LET date_str == DateOf(date)
        plan_summary == _summarise_plan(get_plan_for_date(date_str))
        rest_interval == IF rest_value = None \/ rest_value = 0
                         THEN Or(plan_summary.default_rest_seconds, 90)
                         ELSE rest_value
        started == start_session(date_str, rest_interval, Len(sessions) + 1)
        created == started.table # sessions
    IN  /\ Received([NoRequest EXCEPT !.op = "start-training", !.date = date,
                                      !.rest_interval_seconds = rest_value])
        /\ IF Trackable(plan_summary) = <<>>
           THEN /\ response' = ErrorResponse(400, "no trackable exercise today")
                /\ UNCHANGED sessions
           ELSE /\ created => Len(sessions) < MaxSessions
                /\ sessions' = started.table
                /\ response' =
                     [_build_session_payload(started.session, plan_summary,
                                             started.session.logs)
                        EXCEPT !.default_rest_seconds = plan_summary.default_rest_seconds]
        /\ UNCHANGED <<plans, sets, clock, probe, inflight, faults>>

\* manual_rest or selected_rest or session.rest_interval_seconds
EffectiveRest(manual_rest, selected_rest, session_rest) ==
    Or(manual_rest, Or(selected_rest, session_rest))

\* next_step.get("target_rest_seconds") or updated_session.rest_interval_seconds
RestSeconds(target_rest_seconds, session_rest) == Or(target_rest_seconds, session_rest)

\* POST /api/next-set
next_set(session_id, manual_rest) ==
    LET session == get_session(sessions, sets, session_id)
        plan_summary == _summarise_plan(get_plan_for_date(session.plan_date))
        next_step == _determine_next_step(plan_summary, session.logs)
        effective_rest == EffectiveRest(manual_rest, next_step.target_rest_seconds,
                                        session.rest_interval_seconds)
        log == record_set(session_id, next_step.exercise, effective_rest,
                          next_step.next_set, Len(sets) + 1)
        logged == Append(sets, log)
        updated_session == get_session(sessions, logged, session_id)
        following == _determine_next_step(plan_summary, updated_session.logs)
        completed == [NoResponse EXCEPT !.http = 200, !.status = "completed",
                                        !.session_id = session_id,
                                        !.session_status = "completed"]
    IN  /\ Received([NoRequest EXCEPT !.op = "next-set", !.session_id = session_id,
                                      !.rest_interval_seconds = manual_rest])
        /\ IF session_id = None
           THEN /\ response' = ErrorResponse(400, "Missing session_id")
                /\ UNCHANGED <<sessions, sets, clock>>
           ELSE IF session = NoSession
           THEN /\ response' = ErrorResponse(404, "Session not found")
                /\ UNCHANGED <<sessions, sets, clock>>
           ELSE IF next_step = NoStep
           THEN /\ clock < MaxClock
                /\ sessions' = complete_session(sessions, session_id, NoStr, clock + 1)
                /\ clock' = clock + 1
                /\ response' = completed
                /\ UNCHANGED sets
           ELSE IF following = NoStep
           THEN /\ clock < MaxClock /\ Len(sets) < MaxSetRows
                /\ sets' = logged
                /\ sessions' = complete_session(sessions, session_id, NoStr, clock + 1)
                /\ clock' = clock + 1
                /\ response' = [completed EXCEPT !.last_log = log]
           ELSE /\ Len(sets) < MaxSetRows
                /\ sets' = logged
                /\ response' =
                     [NoResponse EXCEPT
                        !.http = 200,
                        !.status = "rest",
                        !.session_id = session_id,
                        !.session_status = updated_session.status,
                        !.current_exercise = following.exercise,
                        !.current_set = following.next_set,
                        !.target_rest_seconds = following.target_rest_seconds,
                        !.is_combination = following.is_combination,
                        !.components = following.components,
                        !.primary_component = following.primary_component,
                        !.rest_seconds =
                            RestSeconds(following.target_rest_seconds,
                                        updated_session.rest_interval_seconds),
                        !.last_log = log]
                /\ UNCHANGED <<sessions, clock>>
        /\ UNCHANGED <<plans, probe, inflight, faults>>

\* mutant of current_session: the step it reports is logged as done
current_session_Advances(date) ==
    LET session == get_active_session(DateOf(date))
        plan_summary == _summarise_plan(get_plan_for_date(session.plan_date))
        next_step == _determine_next_step(plan_summary, session.logs)
    IN  /\ Received([NoRequest EXCEPT !.op = "current-session", !.date = date])
        /\ response' =
             IF session = NoSession
             THEN [NoResponse EXCEPT !.http = 200, !.status = "no_session"]
             ELSE [_build_session_payload(session, plan_summary, session.logs)
                     EXCEPT !.status = IF is_active(session) THEN "active" ELSE "completed",
                            !.default_rest_seconds = plan_summary.default_rest_seconds]
        /\ sets' = IF session = NoSession \/ next_step = NoStep \/ Len(sets) >= MaxSetRows
                   THEN sets
                   ELSE Append(sets, record_set(session.id, next_step.exercise, None,
                                                next_step.next_set, Len(sets) + 1))
        /\ UNCHANGED <<plans, sessions, clock, probe, inflight, faults>>

\* GET /api/current-session
current_session(date) ==
    LET session == get_active_session(DateOf(date))
        plan_summary == _summarise_plan(get_plan_for_date(session.plan_date))
    IN  /\ Received([NoRequest EXCEPT !.op = "current-session", !.date = date])
        /\ response' =
             IF session = NoSession
             THEN [NoResponse EXCEPT !.http = 200, !.status = "no_session"]
             ELSE [_build_session_payload(session, plan_summary, session.logs)
                     EXCEPT !.status = IF is_active(session) THEN "active" ELSE "completed",
                            !.default_rest_seconds = plan_summary.default_rest_seconds]
        /\ UNCHANGED <<plans, sessions, sets, clock, probe, inflight, faults>>

\* POST /api/finish-training
finish_training(session_id, notes) ==
    LET session == get_session(sessions, sets, session_id)
    IN  /\ Received([NoRequest EXCEPT !.op = "finish-training",
                                      !.session_id = session_id, !.notes = notes])
        /\ IF session_id = None
           THEN /\ response' = ErrorResponse(400, "Missing session_id")
                /\ UNCHANGED <<sessions, clock>>
           ELSE IF session = NoSession
           THEN /\ response' = ErrorResponse(404, "Session not found")
                /\ UNCHANGED <<sessions, clock>>
           ELSE /\ clock < MaxClock
                /\ sessions' = complete_session(sessions, session_id, notes, clock + 1)
                /\ clock' = clock + 1
                /\ response' = [NoResponse EXCEPT !.http = 200, !.status = "completed",
                                                  !.session_id = session_id,
                                                  !.session_status = "completed"]
        /\ UNCHANGED <<plans, sets, probe, inflight, faults>>

\* ------------------------------------------------------------ stored plans
\* the plan of the tests (seed_plan), with fewer sets
TestPlan == <<Row(Squat, Num(2), Num(12), Num(90)),
              Row(Deadlift, Num(1), Num(10), Num(120))>>

\* test_rest_day_blocks_training
RestDayPlan == <<Row(RestName, Blank, Blank, Blank)>>

\* a warm-up row, an exercise written "2x5" with no rest, and an exercise
\* without sets and with a rest of 0
MixedPlan == <<Row(WarmupName, Num(1), Num(5), Blank),
               Row(Deadlift, Pair(2, 5), Blank, Blank),
               Row(Squat, Blank, Num(8), Num(0))>>

\* the same exercise on two rows
RepeatedPlan == <<Row(Squat, Num(1), Num(5), Num(60)),
                  Row(Squat, Num(2), Num(5), Num(60))>>

\* a zeroed-out row and a row without a name
ZeroPlan == <<Row(Squat, Num(0), Num(0), Num(0)),
              Row("", Num(1), Blank, Blank)>>

PlanRecord(date, plan_data) == [date |-> date, plan_data |-> plan_data]

PlanTables ==
    {<<>>,
     <<PlanRecord(Today, TestPlan), PlanRecord(OtherDay, RestDayPlan)>>,
     <<PlanRecord(Today, MixedPlan)>>,
     <<PlanRecord(OtherDay, RepeatedPlan), PlanRecord(Today, ZeroPlan)>>}

RequestDates == Dates \cup {BadDate}
RestValues == {None, 30}
ManualRests == {None, 0, 45}
SessionIds == {None} \cup (1..MaxSessions)
NotesValues == {"tired"}

\* request workers of the server; a worker is idle or between the query and
\* the insert of start_session
MaxWorkers == 2
Workers == 1..MaxWorkers
Idle == [pc |-> "idle", date |-> NoStr, plan_date |-> NoStr, rest_interval_seconds |-> None]
NoneInFlight == [p \in Workers |-> Idle]

NoProbe == [called |-> FALSE, plan_summary |-> PlanSummary(<<>>),
            logs |-> <<>>, result |-> NoStep]

\* ------------------------------------------------------------ specification
Init ==
    /\ plans \in PlanTables
    /\ sessions = <<>>
    /\ sets = <<>>
    /\ clock = 0
    /\ request = NoRequest
    /\ response = NoResponse
    /\ repeat = 0
    /\ probe = NoProbe
    /\ inflight = NoneInFlight
    /\ faults = {}

StartTraining == \E date \in RequestDates : start_training(date, None)

NextSet == \E session_id \in SessionIds : next_set(session_id, None)

CurrentSession == \E date \in RequestDates : current_session(date)

FinishTraining == \E session_id \in SessionIds, notes \in NotesValues :
                    finish_training(session_id, notes)

Next == StartTraining \/ NextSet \/ CurrentSession \/ FinishTraining

Spec == Init /\ [][Next]_vars

\* the requests that carry a rest_interval_seconds
StartTrainingWithRest == \E date \in Dates, rest_value \in RestValues :
                            start_training(date, rest_value)

NextSetWithRest == \E session_id \in 1..MaxSessions, manual_rest \in ManualRests :
                        next_set(session_id, manual_rest)

NextRest == StartTrainingWithRest \/ NextSetWithRest

SpecRest == Init /\ [][NextRest]_vars

\* a direct call of TrainingSessionService.record_set without a set_number
record_set_call(session_id, exercise) ==
    /\ Received([NoRequest EXCEPT !.op = "record-set", !.session_id = session_id,
                                  !.notes = exercise])
    /\ IF exercise = ""
       THEN /\ response' = ErrorResponse(500, "Exercise name is required")
            /\ UNCHANGED sets
       ELSE /\ Len(sets) < MaxSetRows
            /\ sets' = Append(sets, record_set(session_id, exercise, None, None,
                                                Len(sets) + 1))
            /\ response' = [NoResponse EXCEPT !.http = 200, !.session_id = session_id,
                                              !.last_log = sets'[Len(sets')]]
    /\ UNCHANGED <<plans, sessions, clock, probe, inflight, faults>>

RecordSet == \E session_id \in 1..Len(sessions), exercise \in {Squat, ""} :
                record_set_call(session_id, exercise)

NextService == StartTraining \/ NextSet \/ RecordSet

SpecService == Init /\ [][NextService]_vars

\* ----------------------------------------- the progression engine on its own
SeqsUpTo(S, n) == UNION {[1..k -> S] : k \in 0..n}

ProbeEntries ==
    {[exercise_name |-> name, target_sets |-> target_sets, target_reps |-> None,
      target_rest_seconds |-> None, is_trackable |-> TRUE, category |-> "exercise"] :
        name \in {Squat, Deadlift}, target_sets \in {None, 2}}
    \cup
    {[exercise_name |-> name, target_sets |-> None, target_reps |-> None,
      target_rest_seconds |-> None, is_trackable |-> FALSE, category |-> "note"] :
        name \in {Squat, Deadlift}}

ProbeLogs ==
    {[session_id |-> 1, exercise |-> name, set_number |-> n, rest_seconds |-> None,
      completed_at |-> None] : name \in {Squat, Deadlift}, n \in 1..2}

InitStep ==
    /\ plans = <<>>
    /\ sessions = <<>>
    /\ sets = <<>>
    /\ clock = 0
    /\ request = NoRequest
    /\ response = NoResponse
    /\ repeat = 0
    /\ \E exercises \in SeqsUpTo(ProbeEntries, MaxPlanLen), logs \in SeqsUpTo(ProbeLogs, MaxLogs) :
            probe = [called |-> FALSE, plan_summary |-> PlanSummary(exercises),
                     logs |-> logs, result |-> NoStep]
    /\ inflight = NoneInFlight
    /\ faults = {}

CallNextStep ==
    /\ ~probe.called
    /\ probe' = [probe EXCEPT !.called = TRUE,
                              !.result = _determine_next_step(probe.plan_summary, probe.logs)]
    /\ UNCHANGED <<plans, sessions, sets, clock, request, response, repeat, inflight, faults>>

SpecStep == InitStep /\ [][CallNextStep]_vars

\* ------------------------------------------- start-training, two workers
\* mutant of insert_session: the insert is skipped when the date has an
\* active session by then
insert_session_Rechecks(plan_date, rest_interval_seconds, now) ==
    start_session(plan_date, rest_interval_seconds, now)

\* start_session from session_id = str(uuid4()) on: the insert and its result
insert_session(plan_date, rest_interval_seconds, now) ==
    LET payload == [id |-> Len(sessions) + 1,
                    plan_date |-> plan_date,
                    status |-> "active",
                    rest_interval_seconds |-> rest_interval_seconds,
                    started_at |-> now,
                    completed_at |-> None,
                    notes |-> NoStr]
    IN  [table |-> Append(sessions, payload), session |-> from_record(payload, <<>>)]

\* start_training up to and including the query of start_session for an active
\* session: the request is answered here unless a session has to be inserted
start_training_query(p, date, rest_value) ==
    LET date_str == DateOf(date)
        plan_summary == _summarise_plan(get_plan_for_date(date_str))
        rest_interval == IF rest_value = None \/ rest_value = 0
                         THEN Or(plan_summary.default_rest_seconds, 90)
                         ELSE rest_value
        existing == ActiveQuery(date_str)
        req == [NoRequest EXCEPT !.op = "start-training", !.date = date,
                                 !.rest_interval_seconds = rest_value]
    IN  /\ inflight[p] = Idle
        /\ IF Trackable(plan_summary) = <<>>
           THEN /\ Received(req)
                /\ response' = ErrorResponse(400, "no trackable exercise today")
                /\ UNCHANGED inflight
           ELSE IF existing # <<>>
           THEN /\ Received(req)
                /\ response' =
                     [_build_session_payload(
                          from_record(existing[1], _fetch_logs(sets, existing[1].id)),
                          plan_summary, _fetch_logs(sets, existing[1].id))
                        EXCEPT !.default_rest_seconds = plan_summary.default_rest_seconds]
                /\ UNCHANGED inflight
           ELSE /\ inflight' = [inflight EXCEPT ![p] =
                                   [pc |-> "insert", date |-> date, plan_date |-> date_str,
                                    rest_interval_seconds |-> rest_interval]]
                /\ UNCHANGED <<request, response, repeat>>
        /\ UNCHANGED <<plans, sessions, sets, clock, probe, faults>>

\* the rest of start_training for a worker whose query found no active session
start_training_insert(p) ==
    LET mine == inflight[p]
        plan_summary == _summarise_plan(get_plan_for_date(mine.plan_date))
        started == insert_session(mine.plan_date, mine.rest_interval_seconds,
                                  Len(sessions) + 1)
    IN  /\ mine.pc = "insert"
        /\ Len(sessions) < MaxSessions
        /\ sessions' = started.table
        /\ Received([NoRequest EXCEPT !.op = "start-training", !.date = mine.date])
        /\ response' =
             [_build_session_payload(started.session, plan_summary, started.session.logs)
                EXCEPT !.default_rest_seconds = plan_summary.default_rest_seconds]
        /\ inflight' = [inflight EXCEPT ![p] = Idle]
        /\ UNCHANGED <<plans, sets, clock, probe, faults>>

StartTrainingQuery == \E p \in Workers, date \in RequestDates :
                        start_training_query(p, date, None)

StartTrainingInsert == \E p \in Workers : start_training_insert(p)

NextRace == StartTrainingQuery \/ StartTrainingInsert \/ FinishTraining

SpecRace == Init /\ [][NextRace]_vars

\* ------------------------------------------- the endpoints that take a date
TodayPlan == \E date \in RequestDates : today_plan(date)

NextDates == TodayPlan \/ StartTraining \/ CurrentSession \/ NextSet

SpecDates == Init /\ [][NextDates]_vars

\* ------------------------------------------------------------ plan import
\* if len(bulk_insert_data) >= 50; if phase_num < 14
BatchSize == 50
MinPhase == 14

\* storage calls of one import that may fail: 0 is the delete, k the k-th insert
MaxInsertCalls == 2

\* a sheet: whether its name contains 阶段, the digits of its name as a number,
\* and its date markers in scan order; a marker: whether a weekday row is above
\* it, the date its month.day gives (NoStr when that does not parse as two
\* integers), and the rows between the header and the marker
Marker(header, date, plan_data) == [header |-> header, date |-> date, plan_data |-> plan_data]
Sheet(stage, phase_num, markers) == [stage |-> stage, phase_num |-> phase_num, markers |-> markers]

NoRecord == PlanRecord(NoStr, <<>>)

\* extract_plan_data; rows whose every value is "" or "0" are skipped
extract_plan_data(marker) ==
    IF marker.date = NoStr THEN NoRecord
    ELSE PlanRecord(marker.date,
                    SelectSeq(marker.plan_data,
                              LAMBDA row : ~(/\ row.name = ""
                                             /\ \A i \in 1..Len(row.cells) :
                                                    row.cells[i] \in {Blank, Num(0)})))

\* the records one sheet adds to bulk_insert_data
SheetRecords(sheet) ==
    IF sheet.phase_num = None \/ sheet.phase_num < MinPhase THEN <<>>
    ELSE LET kept == SelectSeq(sheet.markers,
                               LAMBDA marker : /\ marker.header
                                               /\ extract_plan_data(marker) # NoRecord
                                               /\ extract_plan_data(marker).plan_data # <<>>)
         IN  [i \in 1..Len(kept) |-> extract_plan_data(kept[i])]

RECURSIVE Extracted(_, _)
Extracted(sheets, i) ==
    IF i > Len(sheets) THEN <<>>
    ELSE SheetRecords(sheets[i]) \o Extracted(sheets, i + 1)

\* the insert_batch call that carries the i-th record: a batch is sent as soon
\* as it holds BatchSize records, the rest after the last sheet
InsertCallOf(i) == ((i - 1) \div BatchSize) + 1

\* what the insert_batch calls store: a call on which the backend fails is
\* logged and stores nothing
RECURSIVE insert_batch(_, _, _)
insert_batch(records, i, failing) ==
    IF i > Len(records) THEN <<>>
    ELSE (IF InsertCallOf(i) \in failing THEN <<>> ELSE <<records[i]>>)
         \o insert_batch(records, i + 1, failing)

\* mutant of delete_all: the stored records are kept
delete_all_Keeps(table) == table

\* supabase.table("workout_plans").delete().gt("id", 0): every stored row has
\* the positive serial id the backend gave it
delete_all(table) == SelectSeq(table, LAMBDA rec : FALSE)

\* what import_excel_to_db returns and the table it leaves
import_excel_to_db(table, sheets, failing) ==
    LET valid_sheets == SelectSeq(sheets, LAMBDA sheet : sheet.stage)
        records == Extracted(valid_sheets, 1)
    IN  IF valid_sheets = <<>> THEN [ok |-> FALSE, table |-> table]
        ELSE IF 0 \in failing THEN [ok |-> FALSE, table |-> table]
        ELSE [ok |-> Len(records) > 0,
              table |-> delete_all(table) \o insert_batch(records, 1, failing)]

\* "." in filename and filename.rsplit(".", 1)[1].lower() in {"xlsx"}
allowed_file(filename) == filename \in {"plan.xlsx", "PLAN.XLSX"}

\* POST /api/upload-plan; status "imported" stands for the message 训练计划导入成功
upload_plan(file, failing) ==
    LET imported == import_excel_to_db(plans, file.sheets, failing)
    IN  /\ Received([NoRequest EXCEPT !.op = "upload-plan", !.file = file])
        /\ IF file.filename = ""
           THEN /\ response' = ErrorResponse(400, "no file selected")
                /\ UNCHANGED <<plans, faults>>
           ELSE IF ~allowed_file(file.filename)
           THEN /\ response' = ErrorResponse(400, "only .xlsx is supported")
                /\ UNCHANGED <<plans, faults>>
           ELSE IF file.too_big
           THEN /\ response' = ErrorResponse(400, "file too large")
                /\ UNCHANGED <<plans, faults>>
           ELSE /\ plans' = imported.table
                /\ faults' = failing
                /\ response' = IF imported.ok
                               THEN [NoResponse EXCEPT !.http = 200, !.status = "imported"]
                               ELSE ErrorResponse(400, "import failed")
        /\ UNCHANGED <<sessions, sets, clock, probe, inflight>>

\* workbooks: two dates on one sheet; one date twice on a sheet and once more
\* on another; no sheet named 阶段; sheets below phase 14 or without a number;
\* markers without header, date or rows; one more record than a batch holds
TwoDays == <<Sheet(TRUE, 14, <<Marker(TRUE, Today, TestPlan),
                               Marker(TRUE, OtherDay, RestDayPlan)>>)>>

SameDayTwice == <<Sheet(TRUE, 15, <<Marker(TRUE, Today, MixedPlan),
                                    Marker(TRUE, Today, TestPlan)>>),
                  Sheet(FALSE, 16, <<Marker(TRUE, OtherDay, TestPlan)>>),
                  Sheet(TRUE, 16, <<Marker(TRUE, Today, RepeatedPlan)>>)>>

NoStageSheet == <<Sheet(FALSE, 20, <<Marker(TRUE, Today, TestPlan)>>)>>

EarlyPhases == <<Sheet(TRUE, 13, <<Marker(TRUE, Today, TestPlan)>>),
                 Sheet(TRUE, None, <<Marker(TRUE, OtherDay, TestPlan)>>)>>

BrokenMarkers == <<Sheet(TRUE, 14, <<Marker(FALSE, Today, TestPlan),
                                     Marker(TRUE, NoStr, TestPlan),
                                     Marker(TRUE, Today, <<Row("", Num(0), Blank, Blank)>>),
                                     Marker(TRUE, OtherDay, ZeroPlan)>>)>>

OverOneBatch == <<Sheet(TRUE, 14, [i \in 1..BatchSize |-> Marker(TRUE, OtherDay, RestDayPlan)]),
                  Sheet(TRUE, 15, <<Marker(TRUE, Today, TestPlan)>>)>>

Workbooks == {TwoDays, SameDayTwice, NoStageSheet, EarlyPhases, BrokenMarkers, OverOneBatch}

Files == {NoFile,
          [filename |-> "plan.csv", too_big |-> FALSE, sheets |-> TwoDays],
          [filename |-> "PLAN.XLSX", too_big |-> TRUE, sheets |-> TwoDays]}
         \cup {[filename |-> "plan.xlsx", too_big |-> FALSE, sheets |-> sheets] :
                    sheets \in Workbooks}

UploadPlan == \E file \in Files, failing \in SUBSET (0..MaxInsertCalls) :
                    upload_plan(file, failing)

NextImport == UploadPlan \/ TodayPlan

SpecImport == Init /\ [][NextImport]_vars

\* ------------------------------------------------- the summariser on its own
\* cells and names the rows of a stored plan are drawn from: blank, 0, a bare
\* numeral, a numeral with a unit (180秒), an NxM pair and a combination
SummaryCells == {Blank, Num(0), Num(4), Num(180), Pair(3, 8), Combo(2, 4)}
SummaryNames == {Squat, WarmupName, RestName, ""}

SummaryRows ==
    {Row(name, s, r, t) : name \in SummaryNames, s \in SummaryCells,
                          r \in SummaryCells, t \in SummaryCells}
    \cup {TestRow(name, s, r, w, t) : name \in SummaryNames, s \in SummaryCells,
                                      r \in {Blank, Num(0), Combo(2, 4)},
                                      w \in {Blank, Num(0), Num(80)},
                                      t \in SummaryCells}

\* the plan of tests/test_app.py:147-160: a combination row, a zeroed-out row
\* and a note row
TestAppPlan == <<TestRow(Squat, Num(4), Combo(2, 4), Num(80), Num(180)),
                 TestRow(Deadlift, Num(0), Num(0), Num(0), Num(0)),
                 TestRow(WarmupName, Blank, Blank, Blank, Blank)>>

\* plans of two rows: an exercise or warm-up row with or without a rest cell,
\* above an exercise row with or without one
FirstRows == {Row(name, s, Blank, t) : name \in {Squat, WarmupName},
                                       s \in {Pair(3, 8), Num(4)},
                                       t \in {Blank, Num(180)}}
SecondRows == {Row(Deadlift, s, Blank, t) : s \in {Pair(3, 8), Num(0)},
                                            t \in {Blank, Num(0), Num(4)}}

\* names spelled out of two letters, the separators and the blank; a row is
\* read with its cells stripped (api.py:176), so the name of a row is the
\* stripped text
MaxNameLen == 3
NameChars == {"a", "b", Plus, Amp, WidePlus, WideAmp, Space}
NameTexts == SeqsUpTo(NameChars, MaxNameLen)

SpelledRow(chars, s, r, t) ==
    [name |-> Join(Strip(chars)), spelling |-> Strip(chars),
     headers |-> Headers, cells |-> <<s, r, t>>]

\* the name of the combination row of the test, 垫铃高拉+短触地跌落跳, above a
\* second exercise
CombinationPlan == <<SpelledRow(<<"a", Space, Plus, Space, "b">>, Num(1), Blank, Blank),
                     Row(Squat, Num(1), Blank, Blank)>>

SpelledRows == {SpelledRow(chars, Num(1), Blank, Blank) : chars \in NameTexts}

SummaryTables ==
    {<<PlanRecord(Today, <<row>>)>> : row \in SummaryRows}
    \cup {<<PlanRecord(Today, TestAppPlan)>>}
    \cup {<<PlanRecord(Today, <<r1, r2>>)>> : r1 \in FirstRows, r2 \in SecondRows}
    \cup {<<PlanRecord(Today, <<row>>)>> : row \in SpelledRows}
    \cup {<<PlanRecord(Today, CombinationPlan)>>}

InitSummary ==
    /\ plans \in SummaryTables
    /\ sessions = <<>>
    /\ sets = <<>>
    /\ clock = 0
    /\ request = NoRequest
    /\ response = NoResponse
    /\ repeat = 0
    /\ probe = NoProbe
    /\ inflight = NoneInFlight
    /\ faults = {}

NextSummary == TodayPlan \/ StartTraining

SpecSummary == InitSummary /\ [][NextSummary]_vars

\* --------------------------------------------------- rest notations as text
\* a rest notation as its tokens: runs of digits, the colon (in any of its
\* forms), a minute unit (分钟, 分, min), a second unit (秒, s, sec), the blank
\* and any other character
Colon == ":"
MinuteUnit == "min"
SecondUnit == "sec"
Other == "x"
Digits == {"0", "1", "30", "90"}
DigitsValue(token) ==
    CASE token = "0" -> 0 [] token = "1" -> 1 [] token = "30" -> 30 [] token = "90" -> 90

Least(S) == CHOOSE i \in S : \A j \in S : i <= j

\* _parse_rest_seconds on the tokens of str(value)
ParseRestText(tokens) ==
    LET text == Strip(tokens)
        n == Len(text)
        blanks(i, j) == \A k \in (i + 1)..(j - 1) : text[k] = Space
        \* (\d+)\s*[:]\s*(\d+)
        colon_match == {m \in (1..n) \X (1..n) \X (1..n) :
                            /\ m[1] < m[2] /\ m[2] < m[3]
                            /\ text[m[1]] \in Digits /\ text[m[2]] = Colon
                            /\ text[m[3]] \in Digits
                            /\ blanks(m[1], m[2]) /\ blanks(m[2], m[3])}
        \* (\d+)\s*[:]\s*$
        trailing_minutes == {m \in (1..n) \X (1..n) :
                                /\ m[1] < m[2]
                                /\ text[m[1]] \in Digits /\ text[m[2]] = Colon
                                /\ blanks(m[1], m[2]) /\ blanks(m[2], n + 1)}
        \* (\d+)(分钟|分|min) and (\d+)(秒|s|sec)
        minute_match == {i \in 1..(n - 1) : text[i] \in Digits /\ text[i + 1] = MinuteUnit}
        second_match == {i \in 1..(n - 1) : text[i] \in Digits /\ text[i + 1] = SecondUnit}
        total == (IF minute_match = {} THEN 0
                  ELSE DigitsValue(text[Least(minute_match)]) * 60)
                 + (IF second_match = {} THEN 0
                    ELSE DigitsValue(text[Least(second_match)]))
        \* re.sub(r"\D*\Z", "", normalized) is a single run of digits
        compact_digits == /\ n >= 1 /\ text[1] \in Digits
                          /\ \A k \in 2..n : text[k] \notin Digits
    IN  IF n = 0 THEN None
        ELSE IF colon_match # {}
        THEN LET m == CHOOSE c \in colon_match : \A d \in colon_match : c[1] <= d[1]
             IN  DigitsValue(text[m[1]]) * 60 + DigitsValue(text[m[3]])
        ELSE IF trailing_minutes # {}
        THEN LET m == CHOOSE c \in trailing_minutes : \A d \in trailing_minutes : c[1] <= d[1]
             IN  DigitsValue(text[m[1]]) * 60
        ELSE IF total # 0 THEN total
        ELSE IF compact_digits THEN DigitsValue(text[1])
        ELSE None

\* the texts the parser is called with: no two runs of digits side by side
MaxTextLen == 4
RestTokens == Digits \cup {Colon, MinuteUnit, SecondUnit, Space, Other}
RestTexts ==
    {text \in SeqsUpTo(RestTokens, MaxTextLen) :
        \A i \in 1..(Len(text) - 1) : ~(text[i] \in Digits /\ text[i + 1] \in Digits)}
    \cup {<<"1", Space, MinuteUnit, Space, "30", Space, SecondUnit>>,
          <<"0", MinuteUnit, "0", SecondUnit>>}

InitParse ==
    /\ plans = <<>>
    /\ sessions = <<>>
    /\ sets = <<>>
    /\ clock = 0
    /\ request = NoRequest
    /\ response = NoResponse
    /\ repeat = 0
    /\ \E text \in RestTexts : probe = [called |-> FALSE, text |-> text, result |-> None]
    /\ inflight = NoneInFlight
    /\ faults = {}

CallParseRest ==
    /\ ~probe.called
    /\ probe' = [probe EXCEPT !.called = TRUE, !.result = ParseRestText(probe.text)]
    /\ UNCHANGED <<plans, sessions, sets, clock, request, response, repeat, inflight, faults>>

SpecParse == InitParse /\ [][CallParseRest]_vars

\* ----------------------------------------- an import beside running sessions
\* import_excel_to_db in its two storage steps, the delete of every record and
\* the insert of the extracted ones, with other requests in between; worker p
\* holds the workbook from the one step to the other
Importing(sheets) == [pc |-> "importing", date |-> NoStr, plan_date |-> NoStr,
                      rest_interval_seconds |-> None, sheets |-> sheets]

import_delete(p, sheets) ==
    /\ inflight[p] = Idle
    /\ \E i \in 1..Len(sheets) : sheets[i].stage
    /\ plans' = delete_all(plans)
    /\ inflight' = [inflight EXCEPT ![p] = Importing(sheets)]
    /\ Received([NoRequest EXCEPT !.op = "upload-plan",
                                  !.file = [filename |-> "plan.xlsx", too_big |-> FALSE,
                                            sheets |-> sheets]])
    /\ response' = NoResponse
    /\ UNCHANGED <<sessions, sets, clock, probe, faults>>

import_insert(p) ==
    /\ inflight[p].pc = "importing"
    /\ LET imported == import_excel_to_db(<<>>, inflight[p].sheets, {})
       IN  /\ plans' = plans \o imported.table
           /\ response' = IF imported.ok
                          THEN [NoResponse EXCEPT !.http = 200, !.status = "imported"]
                          ELSE ErrorResponse(400, "import failed")
    /\ inflight' = [inflight EXCEPT ![p] = Idle]
    /\ UNCHANGED <<sessions, sets, clock, request, repeat, probe, faults>>

\* the stored plans, and workbooks that hold the same plan for Today or none
SeededPlans == <<PlanRecord(Today, TestPlan), PlanRecord(OtherDay, RestDayPlan)>>
Reimports == {TwoDays, BrokenMarkers}

InitReimport ==
    /\ plans = SeededPlans
    /\ sessions = <<>>
    /\ sets = <<>>
    /\ clock = 0
    /\ request = NoRequest
    /\ response = NoResponse
    /\ repeat = 0
    /\ probe = NoProbe
    /\ inflight = NoneInFlight
    /\ faults = {}

ImportDelete == \E p \in Workers, sheets \in Reimports : import_delete(p, sheets)

ImportInsert == \E p \in Workers : import_insert(p)

NextReimport == StartTraining \/ NextSet \/ ImportDelete \/ ImportInsert

SpecReimport == InitReimport /\ [][NextReimport]_vars

\* ------------------------------------------------- next-set, step by step
\* next_set between its reads (session, logs, plan, next step) and its insert
\* of the log: worker p holds the step it computed. The requests that answer
\* before the insert (400, 404, nothing left to do) are those of next_set.
Recording(session, next_step, effective_rest) ==
    [pc |-> "recording", date |-> NoStr, plan_date |-> session.plan_date,
     rest_interval_seconds |-> effective_rest, session_id |-> session.id,
     exercise |-> next_step.exercise, set_number |-> next_step.next_set]

next_set_read(p, session_id, manual_rest) ==
    LET session == get_session(sessions, sets, session_id)
        plan_summary == _summarise_plan(get_plan_for_date(session.plan_date))
        next_step == _determine_next_step(plan_summary, session.logs)
        effective_rest == EffectiveRest(manual_rest, next_step.target_rest_seconds,
                                        session.rest_interval_seconds)
    IN  /\ inflight[p] = Idle
        /\ session # NoSession
        /\ next_step # NoStep
        /\ Received([NoRequest EXCEPT !.op = "next-set", !.session_id = session_id,
                                      !.rest_interval_seconds = manual_rest])
        /\ inflight' = [inflight EXCEPT ![p] = Recording(session, next_step, effective_rest)]
        /\ response' = NoResponse
        /\ UNCHANGED <<plans, sessions, sets, clock, probe, faults>>

\* the plans do not change between the two steps, so the summary the handler
\* computed in its first step is the summary of the stored plan
next_set_write(p) ==
    LET held == inflight[p]
        plan_summary == _summarise_plan(get_plan_for_date(held.plan_date))
        log == record_set(held.session_id, held.exercise, held.rest_interval_seconds,
                          held.set_number, Len(sets) + 1)
        logged == Append(sets, log)
        updated_session == get_session(sessions, logged, held.session_id)
        following == _determine_next_step(plan_summary, updated_session.logs)
    IN  /\ held.pc = "recording"
        /\ Len(sets) < MaxSetRows
        /\ sets' = logged
        /\ inflight' = [inflight EXCEPT ![p] = Idle]
        /\ IF following = NoStep
           THEN /\ clock < MaxClock
                /\ sessions' = complete_session(sessions, held.session_id, NoStr, clock + 1)
                /\ clock' = clock + 1
                /\ response' = [NoResponse EXCEPT !.http = 200, !.status = "completed",
                                                  !.session_id = held.session_id,
                                                  !.session_status = "completed",
                                                  !.last_log = log]
           ELSE /\ response' =
                     [NoResponse EXCEPT
                        !.http = 200,
                        !.status = "rest",
                        !.session_id = held.session_id,
                        !.session_status = updated_session.status,
                        !.current_exercise = following.exercise,
                        !.current_set = following.next_set,
                        !.target_rest_seconds = following.target_rest_seconds,
                        !.is_combination = following.is_combination,
                        !.components = following.components,
                        !.primary_component = following.primary_component,
                        !.rest_seconds =
                            RestSeconds(following.target_rest_seconds,
                                        updated_session.rest_interval_seconds),
                        !.last_log = log]
                /\ UNCHANGED <<sessions, clock>>
        /\ UNCHANGED <<plans, request, repeat, probe, faults>>

NextSetRead == \E p \in Workers, session_id \in 1..MaxSessions : next_set_read(p, session_id, None)

NextSetWrite == \E p \in Workers : next_set_write(p)

NextSets == StartTraining \/ NextSet \/ NextSetRead \/ NextSetWrite

SpecSets == Init /\ [][NextSets]_vars

\* =================================================================== claims
\* what the claims speak of, read off the tables
SessionIdsStored == 1..Len(sessions)

ActiveIds(plan_date) ==
    {i \in SessionIdsStored : sessions[i].plan_date = plan_date /\ sessions[i].status = "active"}

SummaryOn(plan_date) == _summarise_plan(get_plan_for_date(plan_date))

Goal(entry) == IF entry.target_sets = None THEN 1 ELSE entry.target_sets

Step(name, n) == [exercise |-> name, set_number |-> n]

\* the (exercise, set_number) pairs logged for a session, in recording order
Recorded(table, session_id) ==
    LET rows == SelectSeq(table, LAMBDA log : log.session_id = session_id)
    IN  [i \in 1..Len(rows) |-> Step(rows[i].exercise, rows[i].set_number)]

\* every trackable exercise in plan order, each with the set numbers 1..goal
RECURSIVE ExpectedFrom(_, _)
ExpectedFrom(exercises, i) ==
    IF i > Len(exercises) THEN <<>>
    ELSE (IF exercises[i].is_trackable
          THEN [n \in 1..Goal(exercises[i]) |-> Step(exercises[i].exercise_name, n)]
          ELSE <<>>)
         \o ExpectedFrom(exercises, i + 1)

Expected(plan_date) == ExpectedFrom(SummaryOn(plan_date).exercises, 1)

DistinctNames(plan_date) ==
    LET exercises == SummaryOn(plan_date).exercises
    IN  \A i, j \in 1..Len(exercises) :
            /\ exercises[i].is_trackable /\ exercises[j].is_trackable
            /\ exercises[i].exercise_name = exercises[j].exercise_name
            => i = j

\* C1: under sequential requests, at most one session with status active
\* exists for any plan_date
C1_OneActivePerDate ==
    \A i, j \in SessionIdsStored :
        /\ sessions[i].status = "active" /\ sessions[j].status = "active"
        /\ sessions[i].plan_date = sessions[j].plan_date
        => i = j

\* start-training was called twice in a row on a date that already had a
\* completed session: two sessions of one date, one of them active
C1_Witness ==
    /\ request.op = "start-training" /\ repeat = 2 /\ response.http = 200
    /\ Len(sessions) = 2
    /\ sessions[1].plan_date = sessions[2].plan_date
    /\ sessions[1].status = "completed" /\ sessions[2].status = "active"

\* C2: with distinct trackable names, the logs of an active session are a
\* proper prefix of the expected sequence (exercise by exercise in plan order,
\* set numbers 1..g_i), and each next-set on it records the next entry of that
\* sequence, answering rest before the G-th call and completed, with the
\* session completed, at the G-th
C2_Prefix ==
    \A sid \in SessionIdsStored :
        sessions[sid].status = "active" /\ DistinctNames(sessions[sid].plan_date)
        => LET logs == Recorded(sets, sid)
               expected == Expected(sessions[sid].plan_date)
           IN  Len(logs) < Len(expected) /\ logs = SubSeq(expected, 1, Len(logs))

C2_Call ==
    \A sid \in SessionIdsStored :
        /\ sessions[sid].status = "active" /\ DistinctNames(sessions[sid].plan_date)
        /\ request'.op = "next-set" /\ request'.session_id = sid
        => LET k == Len(Recorded(sets, sid))
               expected == Expected(sessions[sid].plan_date)
               G == Len(expected)
           IN  /\ Recorded(sets', sid) = SubSeq(expected, 1, k + 1)
               /\ response'.status = IF k + 1 < G THEN "rest" ELSE "completed"
               /\ sessions'[sid].status = IF k + 1 < G THEN "active" ELSE "completed"

C2_ExactlyG == []C2_Prefix /\ [][C2_Call]_vars

\* the third next-set call completed a session whose plan asks for 2 + 1 sets
C2_Witness ==
    /\ request.op = "next-set" /\ response.status = "completed"
    /\ response.last_log # NoLog
    /\ \E sid \in SessionIdsStored :
          /\ request.session_id = sid
          /\ sessions[sid].status = "completed"
          /\ Recorded(sets, sid) = <<Step(Squat, 1), Step(Squat, 2), Step(Deadlift, 1)>>

\* C3: _determine_next_step returns the first trackable exercise in plan order
\* whose highest logged set_number is below its effective goal, with next_set
\* one above that number, and none exactly when there is no such exercise
HighestLogged(logs, name) ==
    LET logged == {i \in 1..Len(logs) : logs[i].exercise = name}
    IN  IF logged = {} THEN 0
        ELSE logs[CHOOSE i \in logged :
                    \A j \in logged : logs[j].set_number <= logs[i].set_number].set_number

C3_NextStep ==
    probe.called =>
        LET exercises == probe.plan_summary.exercises
            pending == {i \in 1..Len(exercises) :
                            /\ exercises[i].is_trackable
                            /\ HighestLogged(probe.logs, exercises[i].exercise_name)
                                    < Goal(exercises[i])}
        IN  IF pending = {} THEN probe.result = NoStep
            ELSE LET first == CHOOSE i \in pending : \A j \in pending : i <= j
                 IN  /\ probe.result # NoStep
                     /\ probe.result.exercise = exercises[first].exercise_name
                     /\ probe.result.next_set
                            = HighestLogged(probe.logs, exercises[first].exercise_name) + 1
                     /\ probe.result.target_sets = exercises[first].target_sets

\* an untrackable entry and a finished exercise were passed over, and the
\* second set of the third entry is returned
C3_Witness ==
    /\ probe.called
    /\ Len(probe.plan_summary.exercises) = 3
    /\ ~probe.plan_summary.exercises[1].is_trackable
    /\ probe.plan_summary.exercises[2].is_trackable
    /\ probe.plan_summary.exercises[2].exercise_name = Squat
    /\ probe.result.exercise = Deadlift /\ probe.result.next_set = 2

\* C4: start-training answers with the active session of the date, and a
\* start-training for a date whose session is still active returns that
\* session's id and adds no session record
C4_Returned ==
    request.op = "start-training" /\ response.http = 200
    => response.session_id \in ActiveIds(DateOf(request.date))

C4_Second ==
    \A sid \in SessionIdsStored :
        /\ sessions[sid].status = "active"
        /\ request'.op = "start-training"
        /\ DateOf(request'.date) = sessions[sid].plan_date
        => /\ response'.http = 200
           /\ response'.session_id = sid
           /\ sessions' = sessions

C4_Resume == []C4_Returned /\ [][C4_Second]_vars

\* the same start-training request was made twice in a row and there is one
\* session, with a set already logged
C4_Witness ==
    /\ request.op = "start-training" /\ repeat = 2 /\ response.http = 200
    /\ Len(sessions) = 1
    /\ response.session_id = 1 /\ response.current_set = 2

\* C5: a session whose status is completed keeps that status in every step
C5_Step ==
    \A sid \in SessionIdsStored :
        sessions[sid].status = "completed"
        => sid <= Len(sessions') /\ sessions'[sid].status = "completed"

C5_CompletedIsFinal == [][C5_Step]_vars

\* start-training was called for the date of a completed session
C5_Witness ==
    /\ request.op = "start-training" /\ response.http = 200
    /\ \E sid \in SessionIdsStored :
          /\ sessions[sid].status = "completed"
          /\ sessions[sid].plan_date = DateOf(request.date)

\* C6: a current-session call that follows a current-session call for the
\* same date returns the same current_exercise and current_set and changes no
\* table
C6_Step ==
    /\ request.op = "current-session" /\ request'.op = "current-session"
    /\ request'.date = request.date
    => /\ response'.current_exercise = response.current_exercise
       /\ response'.current_set = response.current_set
       /\ response'.status = response.status
       /\ UNCHANGED <<plans, sessions, sets>>

C6_Idempotent == [][C6_Step]_vars

\* current-session was called twice in a row on an active session with one
\* set logged
C6_Witness ==
    /\ request.op = "current-session" /\ repeat = 2
    /\ response.status = "active" /\ response.current_set = 2

\* C7: start-training for a date whose plan has no trackable exercise answers
\* 400 with an error message and creates no session
NoTrackable(plan_date) ==
    \A i \in 1..Len(SummaryOn(plan_date).exercises) :
        ~SummaryOn(plan_date).exercises[i].is_trackable

C7_Answer ==
    request.op = "start-training" /\ NoTrackable(DateOf(request.date))
    => response.http = 400 /\ response.error # NoStr /\ response.session_id = None

C7_Step ==
    request'.op = "start-training" /\ NoTrackable(DateOf(request'.date))
    => UNCHANGED <<sessions, sets>>

C7_RestDayRejected ==
    /\ []C7_Answer
    /\ [][C7_Step]_vars
    /\ [](\A sid \in SessionIdsStored : ~NoTrackable(sessions[sid].plan_date))

\* start-training was refused on the date whose only row is the rest row
C7_Witness ==
    /\ request.op = "start-training" /\ response.http = 400
    /\ get_plan_for_date(DateOf(request.date)) = [found |-> TRUE, plan_data |-> RestDayPlan]

\* C8: in every next-set response with status rest, rest_seconds is the
\* target_rest_seconds of the step returned, or the session's
\* rest_interval_seconds when that step has no target
C8_RestOfNextStep ==
    request.op = "next-set" /\ response.status = "rest"
    => response.rest_seconds
         = IF response.target_rest_seconds # None THEN response.target_rest_seconds
           ELSE Or(sessions[response.session_id].rest_interval_seconds, 90)

\* a rest response announces a step whose target_rest_seconds is 0 and carries
\* the session's interval as rest_seconds
C8_Witness ==
    /\ request.op = "next-set" /\ response.status = "rest"
    /\ response.target_rest_seconds = 0
    /\ response.rest_seconds = sessions[response.session_id].rest_interval_seconds
    /\ response.rest_seconds > 0

\* C9: the rest_seconds of the set log a next-set call records is the request's
\* override when one is supplied, otherwise the target_rest_seconds of the
\* exercise logged, otherwise the session's rest_interval_seconds
TargetRestOf(plan_date, name) ==
    LET exercises == SummaryOn(plan_date).exercises
        rows == {i \in 1..Len(exercises) :
                    exercises[i].is_trackable /\ exercises[i].exercise_name = name}
    IN  exercises[CHOOSE i \in rows : \A j \in rows : i <= j].target_rest_seconds

C9_StoredRest ==
    request.op = "next-set" /\ response.last_log # NoLog
    => LET session == sessions[request.session_id]
           target == TargetRestOf(session.plan_date, response.last_log.exercise)
       IN  response.last_log.rest_seconds
             = IF request.rest_interval_seconds # None THEN request.rest_interval_seconds
               ELSE IF target # None THEN target
               ELSE Or(session.rest_interval_seconds, 90)

\* a next-set call that supplied the override 0 stored a set log whose
\* rest_seconds is not 0
C9_Witness ==
    /\ request.op = "next-set" /\ request.rest_interval_seconds = 0
    /\ response.last_log # NoLog
    /\ response.last_log.rest_seconds > 0

\* C10: the set logs of one session for one exercise carry the numbers 1..k in
\* recording order, and a record_set call without a set_number appends the
\* highest number stored for that session and exercise plus one, or 1
NumbersOf(table, session_id, exercise) ==
    LET rows == SelectSeq(table, LAMBDA log : log.session_id = session_id
                                               /\ log.exercise = exercise)
    IN  [i \in 1..Len(rows) |-> rows[i].set_number]

C10_Numbered ==
    \A sid \in SessionIdsStored, name \in {sets[i].exercise : i \in 1..Len(sets)} :
        NumbersOf(sets, sid, name) = [i \in 1..Len(NumbersOf(sets, sid, name)) |-> i]

C10_Auto ==
    request'.op = "record-set" /\ response'.http = 200
    => LET sid == request'.session_id
           name == request'.notes
           before == {sets[i].set_number :
                        i \in {j \in 1..Len(sets) : sets[j].session_id = sid
                                                    /\ sets[j].exercise = name}}
       IN  /\ sets' = Append(sets, sets'[Len(sets')])
           /\ sets'[Len(sets')].session_id = sid /\ sets'[Len(sets')].exercise = name
           /\ \A n \in before : n < sets'[Len(sets')].set_number
           /\ sets'[Len(sets')].set_number = 1
                \/ sets'[Len(sets')].set_number - 1 \in before

C10_SetNumbers == []C10_Numbered /\ [][C10_Auto]_vars

\* between two next-set calls, record_set without a set_number stored set 2 of
\* the exercise whose set 1 next-set had logged (the row without rest_seconds)
C10_Witness ==
    /\ request.op = "next-set"
    /\ \E sid \in SessionIdsStored :
          Recorded(sets, sid) = <<Step(Squat, 1), Step(Squat, 2), Step(Deadlift, 1)>>
          /\ \E i \in 1..Len(sets) : sets[i].rest_seconds = None

\* C11: finish-training on an active session answers completed and stores the
\* status completed with a completed_at, whatever sets are logged; the step
\* that completes a session leaves its date without an active session, and
\* current-session for a date without an active session answers no_session and
\* otherwise reports a session that is stored active, never a completed one
ActiveIdsIn(table, plan_date) ==
    {i \in 1..Len(table) : table[i].plan_date = plan_date /\ table[i].status = "active"}

C11_Finish ==
    \A sid \in SessionIdsStored :
        /\ sessions[sid].status = "active"
        /\ request'.op = "finish-training" /\ request'.session_id = sid
        => /\ response'.http = 200 /\ response'.status = "completed"
           /\ sessions'[sid].status = "completed"
           /\ sessions'[sid].completed_at # None

C11_Completes ==
    \A sid \in SessionIdsStored :
        sessions[sid].status = "active" /\ sessions'[sid].status = "completed"
        => /\ sessions'[sid].completed_at # None
           /\ ActiveIdsIn(sessions', sessions[sid].plan_date) = {}

C11_Current ==
    request.op = "current-session"
    => IF ActiveIds(DateOf(request.date)) = {}
       THEN response.status = "no_session"
       ELSE /\ response.status \in {"active", "completed"}
            /\ response.session_id \in ActiveIds(DateOf(request.date))

C12_Insert ==
    \A p \in Workers :
        inflight[p].pc = "insert" /\ inflight'[p].pc = "idle"
        => /\ Len(sessions') = Len(sessions) + 1
           /\ SubSeq(sessions', 1, Len(sessions)) = sessions
           /\ sessions'[Len(sessions')].status = "active"
           /\ sessions'[Len(sessions')].plan_date = inflight[p].plan_date
           /\ response'.http = 200
           /\ response'.session_id = sessions'[Len(sessions')].id

C12_BothInsert == [][C12_Insert]_vars

\* both workers have answered and two active sessions of one date are stored
C12_Witness ==
    /\ \A p \in Workers : inflight[p] = Idle
    /\ \E i, j \in SessionIdsStored :
          /\ i # j
          /\ sessions[i].plan_date = sessions[j].plan_date
          /\ sessions[i].status = "active" /\ sessions[j].status = "active"

\* C13: start-training for a date that has a trackable plan and no active
\* session (its sessions, if any, are all completed) appends one active
\* session with an id no stored session or log carries, answers with it at the
\* first trackable exercise, set 1, and leaves the stored sessions and the set
\* logs as they were
FirstTrackable(plan_date) ==
    LET exercises == SummaryOn(plan_date).exercises
        rows == {i \in 1..Len(exercises) : exercises[i].is_trackable}
    IN  exercises[CHOOSE i \in rows : \A j \in rows : i <= j].exercise_name

C13_Step ==
    LET plan_date == DateOf(request'.date)
        new == sessions'[Len(sessions')]
    IN  /\ request'.op = "start-training"
        /\ ~NoTrackable(plan_date)
        /\ ActiveIds(plan_date) = {}
        => /\ Len(sessions') = Len(sessions) + 1
           /\ SubSeq(sessions', 1, Len(sessions)) = sessions
           /\ sets' = sets
           /\ new.status = "active" /\ new.plan_date = plan_date
           /\ new.completed_at = None
           /\ \A i \in SessionIdsStored : sessions[i].id # new.id
           /\ \A i \in 1..Len(sets) : sets[i].session_id # new.id
           /\ response'.http = 200 /\ response'.status = "active"
           /\ response'.session_id = new.id
           /\ response'.current_exercise = FirstTrackable(plan_date)
           /\ response'.current_set = 1

C13_FreshSession == [][C13_Step]_vars

\* a second session of the date was started after the first one had been
\* completed with sets logged
C13_Witness ==
    /\ request.op = "start-training" /\ response.http = 200
    /\ response.session_id = 2 /\ response.current_set = 1
    /\ Len(sessions) = 2
    /\ sessions[1].plan_date = sessions[2].plan_date
    /\ sessions[1].status = "completed" /\ sessions[2].status = "active"
    /\ Recorded(sets, 1) # <<>> /\ Recorded(sets, 2) = <<>>

\* C14: next-set and finish-training answer 400 with an error when the request
\* carries no session_id and 404 with an error when its session_id is that of
\* no stored session, and in both cases leave sessions and set logs unchanged
C14_Step ==
    request'.op \in {"next-set", "finish-training"}
    => /\ request'.session_id = None
          => /\ response'.http = 400 /\ response'.error # NoStr
             /\ UNCHANGED <<sessions, sets>>
       /\ /\ request'.session_id # None
          /\ \A i \in SessionIdsStored : sessions[i].id # request'.session_id
          => /\ response'.http = 404 /\ response'.error # NoStr
             /\ UNCHANGED <<sessions, sets>>

C14_UnknownSession == [][C14_Step]_vars

\* finish-training named a session that does not exist while another session
\* with a logged set was stored
C14_Witness ==
    /\ request.op = "finish-training" /\ response.http = 404
    /\ request.session_id = 2
    /\ Len(sessions) = 1 /\ sessions[1].status = "active"
    /\ Recorded(sets, 1) # <<>>

\* C15: today-plan, start-training and current-session answer a malformed
\* date with a 4xx status and an error message, and change no table
DateEndpoints == {"today-plan", "start-training", "current-session"}

C15_Answer ==
    request.op \in DateEndpoints /\ ~ValidDate(DateOf(request.date))
    => response.http \in 400..499 /\ response.error # NoStr

C15_NoChange ==
    request'.op \in DateEndpoints /\ ~ValidDate(DateOf(request'.date))
    => UNCHANGED <<plans, sessions, sets>>

C15_MalformedDate == []C15_Answer /\ [][C15_NoChange]_vars

\* current-session was asked for the date 2025-13-40 while a session was
\* stored, and answered 200 no_session without an error
C15_Witness ==
    /\ request.op = "current-session" /\ request.date = BadDate
    /\ response.http = 200 /\ response.status = "no_session"
    /\ response.error = NoStr
    /\ Len(sessions) >= 1

\* what an upload extracts from its workbook and the insert calls it makes
UploadReached ==
    /\ request.op = "upload-plan"
    /\ request.file.filename # "" /\ allowed_file(request.file.filename)
    /\ ~request.file.too_big

UploadExtracted ==
    Extracted(SelectSeq(request.file.sheets, LAMBDA sheet : sheet.stage), 1)

InsertCallsMade == {InsertCallOf(i) : i \in 1..Len(UploadExtracted)}

\* C16: an import during which the backend failed on an insert does not
\* answer with the success message
C16_NoFalseSuccess ==
    UploadReached /\ 0 \notin faults /\ faults \cap InsertCallsMade # {}
    => response.http # 200 /\ response.status # "imported"

\* the only insert of an import failed, nothing is stored, and the upload
\* answered with the success message
C16_Witness ==
    /\ UploadReached /\ request.file.sheets = TwoDays
    /\ faults = {1}
    /\ plans = <<>>
    /\ response.http = 200 /\ response.status = "imported"

\* C17: after an import the Plan Record table holds at most one record per
\* date
C17_OneRecordPerDate ==
    UploadReached
    => \A i, j \in 1..Len(plans) : plans[i].date = plans[j].date => i = j

\* a workbook that marks one month.day twice on a sheet and once on another was
\* imported without any storage failure, and three records of that date are
\* stored
C17_Witness ==
    /\ UploadReached /\ request.file.sheets = SameDayTwice
    /\ faults = {} /\ response.status = "imported"
    /\ Len(plans) = 3
    /\ \A i \in 1..Len(plans) : plans[i].date = Today

C19_UntrackableEmpty ==
    request.op = "today-plan" =>
        \A i \in 1..Len(response.exercises) :
            ~response.exercises[i].is_trackable =>
                /\ response.exercises[i].target_sets = None
                /\ response.exercises[i].target_reps = None
                /\ response.exercises[i].target_rest_seconds = None

\* a warm-up row whose cells parse to sets 4, reps 4 and rest 180 is summarised
\* as a note without targets
C19_Witness ==
    /\ request.op = "today-plan"
    /\ plans = <<PlanRecord(Today, <<Row(WarmupName, Num(4), Num(4), Num(180))>>)>>
    /\ Len(response.exercises) = 1
    /\ ~response.exercises[1].is_trackable
    /\ response.exercises[1].target_sets = None

\* ------------------------------------------------------------------ C20
\* the first row of the stored plan of the requested date, when it is a row of
\* the test layout that holds a numeral in its sets column and a positive rest
\* notation in its inter-set rest column, and is summarised as trackable
C20_RestRow ==
    /\ request.op = "today-plan"
    /\ Len(response.exercises) >= 1
    /\ response.exercises[1].is_trackable
    /\ LET plan == get_plan_for_date(DateOf(request.date))
       IN  /\ plan.found
           /\ plan.plan_data[1].headers = TestHeaders
           /\ plan.plan_data[1].cells[1].kind = "num"
           /\ plan.plan_data[1].cells[1].a > 0
           /\ plan.plan_data[1].cells[4].kind = "num"
           /\ plan.plan_data[1].cells[4].a > 0

\* C20: for a plan row whose inter-set rest column (组间歇) holds a rest notation
\* while the earlier columns hold bare numbers, the descriptor's
\* target_rest_seconds is the parsed value of the rest cell, not a value taken
\* from an earlier numeric cell.
C20_RestFromRestCell ==
    C20_RestRow =>
        response.exercises[1].target_rest_seconds
            = _parse_rest_seconds(get_plan_for_date(DateOf(request.date)).plan_data[1].cells[4])

\* the row of the test (sets 4, reps 2+4, weight 80, rest 180秒) is answered
\* with the value of its sets cell as the rest
C20_Witness ==
    /\ C20_RestRow
    /\ plans = <<PlanRecord(Today, TestAppPlan)>>
    /\ response.exercises[1].target_sets = 4
    /\ response.exercises[1].target_rest_seconds = 4

\* ------------------------------------------------------------------ C21
\* the positions of the trackable descriptors of the answered summary, and
\* those among them that carry a target_rest_seconds
C21_Trackable == {i \in 1..Len(response.exercises) : response.exercises[i].is_trackable}
C21_WithRest == {i \in C21_Trackable : response.exercises[i].target_rest_seconds # None}

\* C21 as stated: a Plan Summary's default_rest_seconds equals the
\* target_rest_seconds of the first trackable exercise in row order.
C21_FirstTrackable ==
    (request.op = "today-plan" /\ C21_Trackable # {}) =>
        response.default_rest_seconds
            = response.exercises[CHOOSE i \in C21_Trackable :
                                    \A j \in C21_Trackable : i <= j].target_rest_seconds

\* C21 amended: default_rest_seconds equals the target_rest_seconds of the first
\* trackable exercise, in row order, that has one, and is empty when no
\* trackable exercise has one.
C21_FirstTrackableWithRest ==
    request.op = "today-plan" =>
        IF C21_WithRest = {} THEN response.default_rest_seconds = None
        ELSE response.default_rest_seconds
                = response.exercises[CHOOSE i \in C21_WithRest :
                                        \A j \in C21_WithRest : i <= j].target_rest_seconds

\* a trackable 3x8 row without a rest above a trackable row with rest 4: the
\* summary's default is the second row's
C21_Witness ==
    /\ request.op = "today-plan"
    /\ Len(response.exercises) = 2
    /\ response.exercises[1].is_trackable
    /\ response.exercises[1].target_rest_seconds = None
    /\ response.exercises[2].is_trackable
    /\ response.exercises[2].target_rest_seconds = 4
    /\ response.default_rest_seconds = 4

\* ------------------------------------------------------------------ C22
\* the rows of the plan stored for the requested date
C22_Rows ==
    LET plan == get_plan_for_date(DateOf(request.date))
    IN  IF plan.found THEN plan.plan_data ELSE <<>>

\* the cells of the row hold a number, and every number they hold is zero
C22_ZeroOnly(row) ==
    /\ \E i \in 1..Len(row.cells) : row.cells[i].kind # "blank"
    /\ \A i \in 1..Len(row.cells) :
            \/ row.cells[i].kind = "blank"
            \/ row.cells[i].kind = "num" /\ row.cells[i].a = 0
            \/ row.cells[i].kind \in {"pair", "combo"}
               /\ row.cells[i].a = 0 /\ row.cells[i].b = 0

C22_Empty(row) ==
    row.name = "" /\ \A i \in 1..Len(row.cells) : row.cells[i].kind = "blank"

C23_Marks == {Plus, Amp, WidePlus, WideAmp}

\* the non-blank stretches of a name between two neighbouring separators (or an
\* end of the name): <<lo, hi>> are the positions of its first and last
\* character that is not a blank
C23_Parts(chars) ==
    LET edges == {i \in 1..Len(chars) : chars[i] \in C23_Marks} \cup {0, Len(chars) + 1}
        inner(lo, hi) == \A i \in lo..hi : chars[i] \notin C23_Marks
    IN  {p \in (1..Len(chars)) \X (1..Len(chars)) :
            /\ p[1] <= p[2]
            /\ inner(p[1], p[2])
            /\ chars[p[1]] # Space /\ chars[p[2]] # Space
            /\ \E lo \in edges, hi \in edges :
                  /\ lo < p[1] /\ p[2] < hi
                  /\ \A i \in (lo + 1)..(p[1] - 1) : chars[i] = Space
                  /\ \A i \in (p[2] + 1)..(hi - 1) : chars[i] = Space}

\* the three combination fields of rec are those of a name spelled chars
C23_Fields(rec, chars, exercise_name) ==
    LET parts == C23_Parts(chars)
        rank(p) == Cardinality({q \in parts : q[1] <= p[1]})
    IN  /\ rec.is_combination <=> Cardinality(parts) > 1
        /\ IF rec.is_combination
           THEN /\ Len(rec.components) = Cardinality(parts)
                /\ \A p \in parts :
                      rec.components[rank(p)] = Join(SubSeq(chars, p[1], p[2]))
                /\ rec.primary_component = rec.components[1]
           ELSE /\ rec.components = <<>>
                /\ rec.primary_component = exercise_name

\* the rows of the plan stored for the requested date that carry the name
C23_RowsNamed(name) ==
    LET plan == get_plan_for_date(DateOf(request.date))
    IN  IF plan.found
        THEN {plan.plan_data[i] : i \in {j \in 1..Len(plan.plan_data) :
                                            plan.plan_data[j].name = name}}
        ELSE {}

\* C23: the descriptor of a name has is_combination exactly when splitting the
\* name on + or & (full-width forms included, empty parts dropped) yields more
\* than one component; then components lists the trimmed parts in order and
\* primary_component is the first part, otherwise components is empty and
\* primary_component equals exercise_name; start-training returns the same
\* three fields for the current step.
C23_Combination ==
    /\ request.op = "today-plan" =>
            \A i \in 1..Len(response.exercises) :
                \A row \in C23_RowsNamed(response.exercises[i].exercise_name) :
                    C23_Fields(response.exercises[i], Spelling(row), row.name)
    /\ (request.op = "start-training" /\ response.http = 200) =>
            \A row \in C23_RowsNamed(response.current_exercise) :
                C23_Fields(response, Spelling(row), row.name)

\* start-training on the plan whose first row is named a + b answers the
\* combination with its two components
C23_Witness ==
    /\ request.op = "start-training"
    /\ plans = <<PlanRecord(Today, CombinationPlan)>>
    /\ response.http = 200
    /\ response.current_exercise = "a + b"
    /\ response.is_combination
    /\ response.components = <<"a", "b">>
    /\ response.primary_component = "a"

\* ------------------------------------------------------------------ C24
\* the first run of digits that a unit follows, blanks allowed in between
C24_UnitMatch(text, unit) ==
    {i \in 1..Len(text) :
        /\ text[i] \in Digits
        /\ \E u \in (i + 1)..Len(text) :
              text[u] = unit /\ \A k \in (i + 1)..(u - 1) : text[k] = Space}

\* the first MM:SS of the text, as <<MM, SS>> positions; blanks allowed around
\* the colon
C24_ColonMatch(text) ==
    {m \in (1..Len(text)) \X (1..Len(text)) :
        /\ m[1] < m[2] /\ text[m[1]] \in Digits /\ text[m[2]] \in Digits
        /\ \E c \in (m[1] + 1)..(m[2] - 1) :
              /\ text[c] = Colon
              /\ \A k \in ((m[1] + 1)..(m[2] - 1)) \ {c} : text[k] = Space}

\* the result the rules give, in their priority
C24_Rules(tokens) ==
    LET text == Strip(tokens)
        n == Len(text)
        colon == C24_ColonMatch(text)
        trailing == {i \in 1..n : /\ text[i] \in Digits
                                  /\ \E c \in (i + 1)..n :
                                        /\ text[c] = Colon
                                        /\ \A k \in ((i + 1)..n) \ {c} : text[k] = Space}
        minutes == C24_UnitMatch(text, MinuteUnit)
        seconds == C24_UnitMatch(text, SecondUnit)
    IN  IF colon # {}
        THEN LET m == CHOOSE c \in colon : \A d \in colon : c[1] <= d[1]
             IN  DigitsValue(text[m[1]]) * 60 + DigitsValue(text[m[2]])
        ELSE IF trailing # {} THEN DigitsValue(text[Least(trailing)]) * 60
        ELSE IF minutes # {} \/ seconds # {}
        THEN (IF minutes = {} THEN 0 ELSE DigitsValue(text[Least(minutes)]) * 60)
             + (IF seconds = {} THEN 0 ELSE DigitsValue(text[Least(seconds)]))
        ELSE IF n >= 1 /\ text[1] \in Digits /\ \A k \in 2..n : text[k] \notin Digits
        THEN DigitsValue(text[1])
        ELSE None

\* C24: parse_rest_seconds applies its rules in the priority MM:SS, trailing
\* MM:, minute and second units, bare digits, first match wins: whenever a
\* minute unit or a second unit matches, with optional whitespace before the
\* unit, the result is minutes*60+seconds; a numeric text is returned as raw
\* seconds; anything else yields none.
C24_RulePriority == probe.called => probe.result = C24_Rules(probe.text)

\* "1 分" is parsed as one second through the bare-digits rule
C24_Witness ==
    /\ probe.called
    /\ probe.text = <<"1", Space, MinuteUnit>>
    /\ probe.result = 1

\* ------------------------------------------------------------------ C25
\* C25: next-set never records a set log for a session whose status is
\* completed.
C25_NoLogWhenCompleted ==
    [][\A sid \in SessionIdsStored :
          (/\ sessions[sid].status = "completed"
           /\ request'.op = "next-set" /\ request'.session_id = sid)
          => sets' = sets]_vars

\* next-set answers a rest, with the log it recorded, for a session that was
\* completed before the request: the answer of a request that completes the
\* session is "completed"
C25_Witness ==
    /\ request.op = "next-set"
    /\ response.http = 200 /\ response.status = "rest"
    /\ response.last_log # NoLog
    /\ response.last_log.session_id = request.session_id
    /\ sessions[request.session_id].status = "completed"
    /\ \E k \in 1..Len(sets) : sets[k] = response.last_log

\* ------------------------------------------------------------------ C26
\* every plan ever stored for Today is the seeded one, so a session of Today
\* was started against it
C26_StartedAgainst == _summarise_plan([found |-> TRUE, plan_data |-> TestPlan])

\* the logs of session sid in the table hold, for every trackable exercise of
\* the plan the session was started against, a set numbered with its goal
C26_GoalsReached(table, sid) ==
    \A i \in 1..Len(C26_StartedAgainst.exercises) :
        LET entry == C26_StartedAgainst.exercises[i]
        IN  entry.is_trackable =>
                \E k \in 1..Len(table) :
                    /\ table[k].session_id = sid
                    /\ table[k].exercise = entry.exercise_name
                    /\ table[k].set_number >= Goal(entry)

\* C26: next-set marks a session completed only when every trackable exercise
\* of the plan the session was started against has reached its goal, also when
\* a plan import runs between or beside the session's requests.
C26_CompletedOnlyAtGoal ==
    [][\A sid \in SessionIdsStored :
          (/\ sessions[sid].status = "active" /\ sessions'[sid].status = "completed"
           /\ request'.op = "next-set")
          => C26_GoalsReached(sets', sid)]_vars

\* a session of Today is completed by next-set without a single log while an
\* import is between its delete and its insert
C26_Witness ==
    /\ request.op = "next-set"
    /\ response.http = 200 /\ response.status = "completed"
    /\ sessions[request.session_id].status = "completed"
    /\ sessions[request.session_id].plan_date = Today
    /\ sets = <<>>
    /\ plans = <<>>
    /\ \E p \in Workers : inflight[p].pc = "importing" /\ inflight[p].sheets = TwoDays

\* ------------------------------------------------------------------ C27
\* C27: two interleaved next-set requests on the same session never produce
\* two set logs with the same exercise and set_number.
C27_NoDuplicateSet ==
    \A i, j \in 1..Len(sets) :
        (/\ i # j
         /\ sets[i].session_id = sets[j].session_id
         /\ sets[i].exercise = sets[j].exercise)
        => sets[i].set_number # sets[j].set_number

\* two logs of squat set 1 in session 1, the second just written by a worker
\* that read the session before the first was written
C27_Witness ==
    /\ Len(sets) >= 2
    /\ sets[1].session_id = sets[2].session_id
    /\ sets[1].exercise = Squat /\ sets[2].exercise = Squat
    /\ sets[1].set_number = 1 /\ sets[2].set_number = 1
    /\ request.op = "next-set"
    /\ response.last_log = sets[2]

\* ------------------------------------------------------------------ C28
\* C28: once a session is completed, later next-set or finish-training calls
\* on that session leave its completed_at and notes unchanged.
C28_CompletionKept ==
    [][\A sid \in SessionIdsStored :
          (/\ sessions[sid].status = "completed"
           /\ request'.op \in {"next-set", "finish-training"}
           /\ request'.session_id = sid)
          => /\ sessions'[sid].completed_at = sessions[sid].completed_at
             /\ sessions'[sid].notes = sessions[sid].notes]_vars

\* next-set sent twice: the first logged the last set and completed the
\* session, the second found nothing left to do and completed it once more,
\* at a later time
C28_Witness ==
    /\ request.op = "next-set" /\ repeat = 2
    /\ response.http = 200 /\ response.status = "completed"
    /\ response.last_log = NoLog
    /\ sessions[request.session_id].status = "completed"
    /\ sessions[request.session_id].completed_at = 2
    /\ \E k \in 1..Len(sets) : sets[k].session_id = request.session_id

\* ------------------------------------------------------------------ C29
\* C29: when an import returns false (no eligible sheet, or zero Plan Records
\* produced), the Plan Records stored before the import are left unchanged.
C29_FailedImportKeeps ==
    [][(request'.op = "upload-plan" /\ response'.error = "import failed")
          => plans' = plans]_vars

\* an import whose sheets are all of phases below 14 or without a number
\* answers with a failure and leaves the table empty, with no storage call
\* having failed
C29_Witness ==
    /\ request.op = "upload-plan"
    /\ request.file.sheets = EarlyPhases
    /\ response.http = 400 /\ response.error = "import failed"
    /\ faults = {}
    /\ plans = <<>>

\* ------------------------------------------------------------------ C30
\* the sets the trackable rows named name ask for, all rows together
RECURSIVE C30_GoalSum(_, _, _)
C30_GoalSum(exercises, name, i) ==
    IF i > Len(exercises) THEN 0
    ELSE (IF exercises[i].is_trackable /\ exercises[i].exercise_name = name
          THEN Goal(exercises[i]) ELSE 0)
         + C30_GoalSum(exercises, name, i + 1)

C30_Logged(table, sid, name) ==
    Cardinality({k \in 1..Len(table) : table[k].session_id = sid /\ table[k].exercise = name})

\* C30: when two trackable rows of a plan carry the same exercise_name, a
\* session is not completed until each of the two rows has had its own
\* target_sets logged; logs recorded for one row do not count towards the
\* other.
C30_EachRowLogged ==
    [][\A sid \in SessionIdsStored :
          (/\ sessions[sid].status = "active" /\ sessions'[sid].status = "completed"
           /\ request'.op = "next-set")
          => LET exercises == SummaryOn(sessions[sid].plan_date).exercises
             IN  \A i \in 1..Len(exercises) :
                    exercises[i].is_trackable =>
                        C30_Logged(sets', sid, exercises[i].exercise_name)
                            >= C30_GoalSum(exercises, exercises[i].exercise_name, 1)]_vars

\* the plan with squat on two rows, of 1 and of 2 sets: the session is
\* completed by next-set with two squat logs
C30_Witness ==
    /\ request.op = "next-set"
    /\ response.http = 200 /\ response.status = "completed"
    /\ response.last_log # NoLog
    /\ sessions[request.session_id].status = "completed"
    /\ get_plan_for_date(sessions[request.session_id].plan_date).plan_data = RepeatedPlan
    /\ C30_Logged(sets, request.session_id, Squat) = 2
    /\ C30_GoalSum(SummaryOn(sessions[request.session_id].plan_date).exercises, Squat, 1) = 3

====
